---- MODULE Spec2Model ----
(***************************************************************************)
(* A model of the jam compiler core: the scanner (lexer.cpp), the code     *)
(* generator (src/ast.cpp, src/codegen.cpp) and the run-time behaviour of  *)
(* the IR the code generator emits for a `for` loop.                       *)
(*                                                                         *)
(* Several specifications share the module, one per subsystem:             *)
(*   Spec        the code generator, driven by main's loop over functions  *)
(*   SpecCalls   the code generator on bodies of call statements           *)
(*   SpecNumber  NumberExprAST::codegen on 64-bit literals                 *)
(*   SpecFor     execution of the blocks ForExprAST::codegen emits         *)
(*               (SpecForLive: bodies with continue and break, with weak   *)
(*               fairness)                                                 *)
(*   SpecLexer   Lexer::scanTokens (SpecLexerLive adds weak fairness)      *)
(*   SpecParser  Parser::parse on the token vector of a program            *)
(*               (SpecParserExpr: one function, with weak fairness)        *)
(*   SpecDriver  main: arguments, the compilation, run mode and emit mode  *)
(*   SpecTarget  Target: construction and toLLVMTriple                     *)
(* A specification keeps the variables of the other subsystems at their    *)
(* initial values.                                                         *)
(***************************************************************************)
EXTENDS Integers, Sequences, FiniteSets, TLC

VARIABLES
    \* ---- NumberExprAST::codegen --------------------------------------
    Val,            \* NumberExprAST::Val, an int64_t (as four 16-bit limbs)
    numResult,      \* the llvm::ConstantInt returned, or NoValue
    \* ---- run time of a lowered for loop ------------------------------
    forStart,       \* the literal of the Start expression (integer)
    forEnd,         \* the literal of the End expression (integer)
    forpc,          \* the basic block control is in
    forSlot,        \* contents of the loop variable's alloca
    forEndVal,      \* EndVal: the (cast) end value computed before the loop
    forIters,       \* how many times the loop body has run
    \* ---- Lexer ---------------------------------------------------------
    source,         \* Lexer::source, a sequence of bytes
    current,        \* Lexer::current, 0-based offset of the next byte
    line,           \* Lexer::line
    tokens,         \* Lexer::tokens
    tokStart,       \* for each token, the 0-based offset of its first byte
    lexpc,          \* "scan", "done" (scanTokens returned) or "error" (it threw)
    \* ---- code generator ------------------------------------------------
    cgpc,           \* "main": in main's loop over the functions; "body":
                    \* inside FunctionAST::codegen lowering a body;
                    \* "aborted": an exception left main
    cgError,        \* what() of the exception thrown, "" if none
    functions,      \* main's `functions`: the FunctionAST's parsed (bodies apart)
    nextFn,         \* position of main's loop over `functions`
    TheModule,      \* the llvm::Function's of the module, in creation order
    TheFunction,    \* index in TheModule of the function being lowered
    InsertBlock,    \* Builder.GetInsertBlock(): a block index of TheFunction
    NamedValues,    \* name -> allocated type of its slot, NoSlot if unbound
    CurrentLoopContinue,    \* the global of ast.cpp: a block or NullBB
    CurrentLoopBreak,       \* the global of ast.cpp: a block or NullBB
    stack,          \* the locals of the if/while/for codegen calls in progress
    nstmts,         \* statements lowered so far
    lastStmt,       \* kind of the statement lowered last, instructions it emitted
    \* ---- Parser --------------------------------------------------------
    program,        \* the source text: the words of each function definition
    ptokens,        \* Parser::tokens
    pcurrent,       \* Parser::current, 0-based index of the next token
    pfunctions,     \* the vector `functions` of Parser::parse
    ppc,            \* "parse", "done" (parse returned) or "error" (it threw)
    perror,         \* what() of the exception thrown, "" if none
    \* ---- main ----------------------------------------------------------
    argv,           \* argv[1..argc-1]
    runFlag,        \* main's runFlag
    showTarget,     \* main's showTarget
    filename,       \* main's filename
    MainFn,         \* what FindFunctionNamed("main") finds in the module
    Result,         \* Result.IntVal of runFunction(MainFn, Args)
    cout,           \* what main wrote to std::cout
    drvpc,          \* the stage main is in, "exited" once the process ended
    exitStatus,     \* how the process ended and the status it returned
    \* ---- Target ----------------------------------------------------------
    llvmTriple,     \* the llvm::Triple handed to fromLLVMTriple
    arch,           \* Target::arch
    os,             \* Target::os
    abi,            \* Target::abi
    tripleString,   \* what toLLVMTriple returned, as the pieces written to oss
    tgtpc           \* "construct", "built" (the Target exists) or "done"

numVars == <<Val, numResult>>
forVars == <<forStart, forEnd, forpc, forSlot, forEndVal, forIters>>
lexVars == <<source, current, line, tokens, tokStart, lexpc>>
cgVars == <<cgpc, cgError, functions, nextFn, TheModule, TheFunction, InsertBlock, NamedValues,
            CurrentLoopContinue, CurrentLoopBreak, stack, nstmts, lastStmt>>
parserVars == <<program, ptokens, pcurrent, pfunctions, ppc, perror>>
driverVars == <<argv, runFlag, showTarget, filename, MainFn, Result, cout, drvpc, exitStatus>>
targetVars == <<llvmTriple, arch, os, abi, tripleString, tgtpc>>
vars == <<numVars, forVars, lexVars, cgVars, parserVars, driverVars, targetVars>>

\* what each subsystem leaves alone
exceptNum == <<forVars, lexVars, cgVars, parserVars, driverVars, targetVars>>
exceptFor == <<numVars, lexVars, cgVars, parserVars, driverVars, targetVars>>
exceptLex == <<numVars, forVars, cgVars, parserVars, driverVars, targetVars>>
exceptCg == <<numVars, forVars, lexVars, parserVars, driverVars, targetVars>>
exceptParser == <<numVars, forVars, lexVars, cgVars, driverVars, targetVars>>
exceptDriver == <<numVars, forVars, lexVars, cgVars, parserVars, targetVars>>
exceptTarget == <<numVars, forVars, lexVars, cgVars, parserVars, driverVars>>

NoValue == [ty |-> 0, bits |-> <<0, 0, 0, 0>>]

-----------------------------------------------------------------------------
(***************************************************************************)
(* 64-bit two's-complement integers as four 16-bit limbs, least            *)
(* significant first: int64_t in the C++ code, llvm::APInt in the IR.      *)
(***************************************************************************)
Limb == 2^16

\* int64_t value of a small integer literal n (|n| < 2^31)
FromInt(n) ==
    <<n % Limb, (n \div Limb) % Limb,
      IF n < 0 THEN Limb - 1 ELSE 0, IF n < 0 THEN Limb - 1 ELSE 0>>

IsNeg64(v) == v[4] >= 32768

\* unsigned comparison of two 64-bit patterns
LtU64(a, b) ==
    \/ a[4] < b[4]
    \/ a[4] = b[4] /\ a[3] < b[3]
    \/ a[4] = b[4] /\ a[3] = b[3] /\ a[2] < b[2]
    \/ a[4] = b[4] /\ a[3] = b[3] /\ a[2] = b[2] /\ a[1] < b[1]

LeU64(a, b) == a = b \/ LtU64(a, b)

\* signed comparison (int64_t <, icmp slt on sign-extended operands)
Lt64(a, b) ==
    IF IsNeg64(a) # IsNeg64(b) THEN IsNeg64(a) ELSE LtU64(a, b)

Le64(a, b) == a = b \/ Lt64(a, b)

\* a + b modulo 2^64
Add64(a, b) ==
    LET s1 == a[1] + b[1]
        s2 == a[2] + b[2] + (s1 \div Limb)
        s3 == a[3] + b[3] + (s2 \div Limb)
        s4 == a[4] + b[4] + (s3 \div Limb)
    IN  <<s1 % Limb, s2 % Limb, s3 % Limb, s4 % Limb>>

\* the low w bits of v, zero-extended (the bit pattern of an iW value)
Trunc(v, w) ==
    CASE w = 1  -> <<v[1] % 2, 0, 0, 0>>
      [] w = 8  -> <<v[1] % 256, 0, 0, 0>>
      [] w = 16 -> <<v[1], 0, 0, 0>>
      [] w = 32 -> <<v[1], v[2], 0, 0>>
      [] OTHER  -> v

\* the signed value of the iW bit pattern b, as a 64-bit integer
SExt(b, w) ==
    CASE w = 1  -> IF b[1] = 1 THEN FromInt(-1) ELSE b
      [] w = 8  -> IF b[1] >= 128 THEN <<b[1] + 65280, Limb - 1, Limb - 1, Limb - 1>> ELSE b
      [] w = 16 -> IF b[1] >= 32768 THEN <<b[1], Limb - 1, Limb - 1, Limb - 1>> ELSE b
      [] w = 32 -> IF b[2] >= 32768 THEN <<b[1], b[2], Limb - 1, Limb - 1>> ELSE b
      [] OTHER  -> b

-----------------------------------------------------------------------------
(***************************************************************************)
(* llvm::ConstantInt::get(IntType, V, isSigned = true): the constant of    *)
(* width w holding the low w bits of V.                                    *)
(***************************************************************************)
ConstantInt(w, v) == [ty |-> w, bits |-> Trunc(v, w)]

\* the literal thresholds of NumberExprAST::codegen
U8Max == <<255, 0, 0, 0>>
I8Min == FromInt(-128)
U16Max == <<65535, 0, 0, 0>>
I16Min == FromInt(-32768)
U32Max == <<65535, 65535, 0, 0>>
I32Min == <<0, 32768, 65535, 65535>>
Zero64 == FromInt(0)

\* the IntType NumberExprAST::codegen chooses for Val (its bit width)
NumberWidth_unsignedOnly(v) ==
    IF Le64(Zero64, v) /\ Le64(v, U8Max) THEN 8
    ELSE IF Le64(Zero64, v) /\ Le64(v, U16Max) THEN 16
    ELSE IF Le64(Zero64, v) /\ LeU64(v, U32Max) THEN 32
    ELSE 64

NumberWidth(v) ==
    IF Le64(Zero64, v) /\ Le64(v, U8Max) THEN 8
    ELSE IF Le64(I8Min, v) /\ Lt64(v, Zero64) THEN 8
    ELSE IF Le64(Zero64, v) /\ Le64(v, U16Max) THEN 16
    ELSE IF Le64(I16Min, v) /\ Lt64(v, Zero64) THEN 16
    ELSE IF Le64(Zero64, v) /\ LeU64(v, U32Max) THEN 32
    ELSE IF Le64(I32Min, v) /\ Lt64(v, Zero64) THEN 32
    ELSE 64

NumberExprAST_codegen(v) == ConstantInt(NumberWidth(v), v)

-----------------------------------------------------------------------------
(***************************************************************************)
(* SpecNumber: NumberExprAST::codegen applied to literals around every     *)
(* threshold of the cascade and around the ends of the int64_t range.      *)
(***************************************************************************)
Spread == 4

Thresholds ==
    { Zero64, U8Max, I8Min, U16Max, I16Min, U32Max, I32Min,
      <<65535, 65535, 65535, 32767>>,      \* INT64_MAX
      <<0, 0, 0, 32768>> }                 \* INT64_MIN

Literals == { Add64(t, FromInt(k)) : t \in Thresholds, k \in (0 - Spread)..Spread }

InitNumber ==
    /\ Val \in Literals
    /\ numResult = NoValue

NumberCodegen ==
    /\ numResult = NoValue
    /\ numResult' = NumberExprAST_codegen(Val)
    /\ UNCHANGED <<Val, exceptNum>>

-----------------------------------------------------------------------------
(***************************************************************************)
(* SpecFor: the run of the blocks ForExprAST::codegen emits for            *)
(* `for v in <forStart>:<forEnd> { body }`, the body holding no break,     *)
(* continue or return.  Both range expressions are number literals.        *)
(***************************************************************************)
ForLits == {-3, -1, 0, 1, 3, 127, 128, 200, 255, 256, 300}

\* IRBuilder::CreateIntCast(V, DestTy, isSigned = true)
CreateIntCast(v, w) == [ty |-> w, bits |-> Trunc(SExt(v.bits, v.ty), w)]

\* the loop variable's type: the type of the start value
ForVarType(StartVal) == StartVal.ty

\* EndVal after the conversion to the loop variable's type
ForEndValue(EndVal, VarType) ==
    IF EndVal.ty # VarType THEN CreateIntCast(EndVal, VarType) ELSE EndVal

\* icmp slt CurVar, EndVal
ForCondV(CurVar, EndVal) ==
    Lt64(SExt(CurVar.bits, CurVar.ty), SExt(EndVal.bits, EndVal.ty))

\* add CurVarForIncrement, StepVal   with StepVal = ConstantInt::get(VarType, 1)
ForNextVar(CurVar) ==
    [ty |-> CurVar.ty, bits |-> Trunc(Add64(CurVar.bits, FromInt(1)), CurVar.ty)]

InitFor ==
    /\ forStart \in ForLits
    /\ forEnd \in ForLits
    /\ forpc = "entry"
    /\ forSlot = NoValue
    /\ forEndVal = NoValue
    /\ forIters = 0

\* the code before the loop: start and end values, the cast, the store
ForEntryBlock ==
    /\ forpc = "entry"
    /\ LET StartVal == NumberExprAST_codegen(FromInt(forStart))
           EndVal == NumberExprAST_codegen(FromInt(forEnd))
           VarType == ForVarType(StartVal)
       IN  /\ forEndVal' = ForEndValue(EndVal, VarType)
           /\ forSlot' = StartVal
    /\ forpc' = "forcond"
    /\ UNCHANGED <<forStart, forEnd, forIters, exceptFor>>

\* forcond: load, compare, conditional branch
ForCondBlock ==
    /\ forpc = "forcond"
    /\ forpc' = IF ForCondV(forSlot, forEndVal) THEN "forloop" ELSE "afterloop"
    /\ UNCHANGED <<forStart, forEnd, forSlot, forEndVal, forIters, exceptFor>>

\* forloop: the body runs once and falls through to forincr
ForLoopBlock ==
    /\ forpc = "forloop"
    /\ forIters' = forIters + 1
    /\ forpc' = "forincr"
    /\ UNCHANGED <<forStart, forEnd, forSlot, forEndVal, exceptFor>>

\* the block a run of the body leaves forloop for: `continue` branches to
\* CurrentLoopContinue = IncrBB, `break` to CurrentLoopBreak = AfterBB, the
\* end of the body to IncrBB
ForBodyExit_continueToCond(how) ==
    CASE how = "break" -> "afterloop"
      [] how = "continue" -> "forcond"
      [] OTHER -> "forincr"

ForBodyExit(how) == IF how = "break" THEN "afterloop" ELSE "forincr"

\* forloop with a body that ends in `continue` or `break` on this iteration
ForLoopBlockJump(how) ==
    /\ forpc = "forloop"
    /\ forIters' = forIters + 1
    /\ forpc' = ForBodyExit(how)
    /\ UNCHANGED <<forStart, forEnd, forSlot, forEndVal, exceptFor>>

\* forincr: load, add 1, store, branch to forcond
ForIncrBlock ==
    /\ forpc = "forincr"
    /\ forSlot' = ForNextVar(forSlot)
    /\ forpc' = "forcond"
    /\ UNCHANGED <<forStart, forEnd, forEndVal, forIters, exceptFor>>


-----------------------------------------------------------------------------
(***************************************************************************)
(* SpecLexer: Lexer::scanTokens.  A byte is a one-character string; the    *)
(* byte "xC3" stands for a byte outside ASCII.  One step of the model is   *)
(* one iteration of the loop of scanTokens.                                *)
(***************************************************************************)
MaxLen == 4

\* the longest source of the runs that check termination as a liveness property
MaxLiveLen == 3

Alphabet == {"\n", " ", "/", "\"", "a", "1", "-", "=", "!", "xC3"}

Digits == {"0", "1", "2", "3", "4", "5", "6", "7", "8", "9"}

Letters ==
    {"a", "b", "c", "d", "e", "f", "g", "h", "i", "j", "k", "l", "m",
     "n", "o", "p", "q", "r", "s", "t", "u", "v", "w", "x", "y", "z",
     "A", "B", "C", "D", "E", "F", "G", "H", "I", "J", "K", "L", "M",
     "N", "O", "P", "Q", "R", "S", "T", "U", "V", "W", "X", "Y", "Z"}

NUL == "NUL"

isAtEnd(cur) == cur >= Len(source)

peek(cur) == IF isAtEnd(cur) THEN NUL ELSE source[cur + 1]

peekNext(cur) == IF cur + 1 >= Len(source) THEN NUL ELSE source[cur + 2]

isDigit(c) == c \in Digits

isAlpha(c) == c \in Letters \/ c = "_"

isAlphaNumeric(c) == isAlpha(c) \/ isDigit(c)

\* while (peek() != '\n' && !isAtEnd()) advance();
RECURSIVE SkipComment(_)
SkipComment(cur) ==
    IF peek(cur) # "\n" /\ ~isAtEnd(cur) THEN SkipComment(cur + 1) ELSE cur

\* Lexer::skipWhitespace: the pair <<current, line>> it leaves
RECURSIVE skipWhitespace(_, _)
skipWhitespace(cur, ln) ==
    LET c == peek(cur)
    IN  CASE c \in {" ", "\r", "\t"} -> skipWhitespace(cur + 1, ln)
          [] c = "\n" -> skipWhitespace(cur + 1, ln + 1)
          [] c = "/" ->
                IF peekNext(cur) = "/"
                THEN skipWhitespace(SkipComment(cur), ln)
                ELSE <<cur, ln>>
          [] OTHER -> <<cur, ln>>

\* while (isAlphaNumeric(peek())) advance();
RECURSIVE SkipAlphaNumeric(_)
SkipAlphaNumeric(cur) ==
    IF isAlphaNumeric(peek(cur)) THEN SkipAlphaNumeric(cur + 1) ELSE cur

\* while (isDigit(peek())) advance();
RECURSIVE SkipDigits(_)
SkipDigits(cur) ==
    IF isDigit(peek(cur)) THEN SkipDigits(cur + 1) ELSE cur

\* source.substr(start, n)
substr(start, n) == SubSeq(source, start + 1, start + n)

Token(type, lexeme, ln) == [type |-> type, lexeme |-> lexeme, line |-> ln]

\* the keyword table of Lexer::identifier
IdentifierType(text) ==
    CASE text = <<"f", "n">> -> "TOK_FN"
      [] text = <<"r", "e", "t", "u", "r", "n">> -> "TOK_RETURN"
      [] text = <<"c", "o", "n", "s", "t">> -> "TOK_CONST"
      [] text = <<"v", "a", "r">> -> "TOK_VAR"
      [] text = <<"i", "f">> -> "TOK_IF"
      [] text = <<"e", "l", "s", "e">> -> "TOK_ELSE"
      [] text = <<"w", "h", "i", "l", "e">> -> "TOK_WHILE"
      [] text = <<"f", "o", "r">> -> "TOK_FOR"
      [] text = <<"b", "r", "e", "a", "k">> -> "TOK_BREAK"
      [] text = <<"c", "o", "n", "t", "i", "n", "u", "e">> -> "TOK_CONTINUE"
      [] text = <<"i", "n">> -> "TOK_IN"
      [] text = <<"t", "r", "u", "e">> -> "TOK_TRUE"
      [] text = <<"f", "a", "l", "s", "e">> -> "TOK_FALSE"
      [] text = <<"e", "x", "t", "e", "r", "n">> -> "TOK_EXTERN"
      [] text = <<"e", "x", "p", "o", "r", "t">> -> "TOK_EXPORT"
      [] text \in {<<"u", "8">>, <<"u", "1", "6">>, <<"u", "3", "2">>,
                   <<"i", "8">>, <<"i", "1", "6">>, <<"i", "3", "2">>,
                   <<"b", "o", "o", "l">>, <<"s", "t", "r">>} -> "TOK_TYPE"
      [] OTHER -> "TOK_IDENTIFIER"

\* the one-byte tokens of the switch in scanTokens
SingleCharToken(c) ==
    CASE c = "(" -> "TOK_OPEN_PAREN"
      [] c = ")" -> "TOK_CLOSE_PAREN"
      [] c = "{" -> "TOK_OPEN_BRACE"
      [] c = "}" -> "TOK_CLOSE_BRACE"
      [] c = "[" -> "TOK_OPEN_BRACKET"
      [] c = "]" -> "TOK_CLOSE_BRACKET"
      [] c = "," -> "TOK_COMMA"
      [] c = ";" -> "TOK_SEMI"
      [] c = ":" -> "TOK_COLON"
      [] c = "+" -> "TOK_PLUS"
      [] OTHER -> "NONE"

\* the outcome of one scanned lexeme: the offset and line reached, the token
\* added (if any) and whether an exception left scanTokens
Scanned(cur, ln, toks, thrown) ==
    [cur |-> cur, line |-> ln, toks |-> toks, thrown |-> thrown]

\* Lexer::identifier, entered with cur just after the first character
identifier(cur, ln) ==
    LET start == cur - 1
        end == SkipAlphaNumeric(cur)
        text == substr(start, end - start)
    IN  Scanned(end, ln, <<Token(IdentifierType(text), text, ln)>>, FALSE)

\* Lexer::number and Lexer::negativeNumber
number(cur, ln) ==
    LET start == cur - 1
        end == SkipDigits(cur)
    IN  Scanned(end, ln, <<Token("TOK_NUMBER", substr(start, end - start), ln)>>, FALSE)

\* the loop of Lexer::stringLiteral: <<current, line>> at the closing quote
\* or at the end of the source
RECURSIVE StringBody(_, _)
StringBody(cur, ln) ==
    IF peek(cur) # "\"" /\ ~isAtEnd(cur)
    THEN StringBody(cur + 1, IF peek(cur) = "\n" THEN ln + 1 ELSE ln)
    ELSE <<cur, ln>>

\* the line stringLiteral hands to addToken
StringTokenLine(startLine, endLine) == endLine

\* Lexer::stringLiteral, entered with cur just after the opening quote
stringLiteral(cur, ln) ==
    LET start == cur
        at == StringBody(cur, ln)
    IN  IF isAtEnd(at[1])
        THEN Scanned(at[1], at[2], <<>>, TRUE)
        ELSE Scanned(at[1] + 1, at[2],
                     <<Token("TOK_STRING_LITERAL",
                             substr(start, (at[1] + 1) - start - 1),
                             StringTokenLine(ln, at[2]))>>,
                     FALSE)

\* a variant that adds a token for the byte where the code only reports it
TwoCharToken_reported(cur, ln, c, second, two, one) ==
    IF peek(cur) = second /\ ~isAtEnd(cur)
    THEN Scanned(cur + 1, ln, <<Token(two, <<c, second>>, ln)>>, FALSE)
    ELSE Scanned(cur, ln, <<Token(one, <<c>>, ln)>>, FALSE)

\* `case X: if (match(second)) addToken(two) else addToken(one)`; for `!`
\* the else branch writes "Unexpected character" to std::cerr instead
TwoCharToken(cur, ln, c, second, two, one) ==
    IF peek(cur) = second /\ ~isAtEnd(cur)
    THEN Scanned(cur + 1, ln, <<Token(two, <<c, second>>, ln)>>, FALSE)
    ELSE IF one = "NONE"
         THEN Scanned(cur, ln, <<>>, FALSE)
         ELSE Scanned(cur, ln, <<Token(one, <<c>>, ln)>>, FALSE)

\* the switch of scanTokens on the byte c = advance(); cur is past c
ScanChar(c, cur, ln) ==
    CASE SingleCharToken(c) # "NONE" ->
            Scanned(cur, ln, <<Token(SingleCharToken(c), <<c>>, ln)>>, FALSE)
      [] c = "\"" -> stringLiteral(cur, ln)
      [] c = "=" -> TwoCharToken(cur, ln, c, "=", "TOK_EQUAL_EQUAL", "TOK_EQUAL")
      [] c = "!" -> TwoCharToken(cur, ln, c, "=", "TOK_NOT_EQUAL", "NONE")
      [] c = "<" -> TwoCharToken(cur, ln, c, "=", "TOK_LESS_EQUAL", "TOK_LESS")
      [] c = ">" -> TwoCharToken(cur, ln, c, "=", "TOK_GREATER_EQUAL", "TOK_GREATER")
      [] c = "-" ->
            IF peek(cur) = ">" /\ ~isAtEnd(cur)
            THEN Scanned(cur + 1, ln, <<Token("TOK_ARROW", <<"-", ">">>, ln)>>, FALSE)
            ELSE IF isDigit(peek(cur))
                 THEN number(cur, ln)
                 ELSE Scanned(cur, ln, <<Token("TOK_MINUS", <<"-">>, ln)>>, FALSE)
      [] OTHER ->
            IF isDigit(c) THEN number(cur, ln)
            ELSE IF isAlpha(c) THEN identifier(cur, ln)
            ELSE Scanned(cur, ln, <<>>, FALSE)

\* tokens.emplace_back(TOK_EOF, "", line)
EofAppended_none(toks, ln) == toks

EofAppended(toks, ln) == Append(toks, Token("TOK_EOF", <<>>, ln))

Sources(maxlen) == UNION { [1..n -> Alphabet] : n \in 0..maxlen }

InitLexer(maxlen) ==
    /\ source \in Sources(maxlen)
    /\ current = 0
    /\ line = 1
    /\ tokens = <<>>
    /\ tokStart = <<>>
    /\ lexpc = "scan"

\* one iteration of `while (!isAtEnd())`: skipWhitespace, then one lexeme
LexScanStep ==
    /\ lexpc = "scan"
    /\ ~isAtEnd(current)
    /\ LET ws == skipWhitespace(current, line)
       IN  IF isAtEnd(ws[1])
           THEN /\ current' = ws[1]
                /\ line' = ws[2]
                /\ UNCHANGED <<tokens, tokStart, lexpc>>
           ELSE LET c == source[ws[1] + 1]
                    r == ScanChar(c, ws[1] + 1, ws[2])
                IN  /\ current' = r.cur
                    /\ line' = r.line
                    /\ tokens' = tokens \o r.toks
                    /\ tokStart' = IF r.toks = <<>> THEN tokStart
                                   ELSE Append(tokStart, ws[1])
                    /\ lexpc' = IF r.thrown THEN "error" ELSE "scan"
    /\ UNCHANGED <<source, exceptLex>>

\* the loop has ended: the end-of-input token is added and tokens returned
LexFinish ==
    /\ lexpc = "scan"
    /\ isAtEnd(current)
    /\ tokens' = EofAppended(tokens, line)
    /\ tokStart' = Append(tokStart, current)
    /\ lexpc' = "done"
    /\ UNCHANGED <<source, current, line, exceptLex>>

-----------------------------------------------------------------------------
(***************************************************************************)
(* Spec: the code generator.  main (lines 116-119) calls                   *)
(* FunctionAST::codegen on each parsed function in turn.  The body of a    *)
(* function is lowered statement by statement; which statement comes next  *)
(* is chosen freely, so a behaviour lowers an arbitrary AST: a compound    *)
(* statement (if, while, for) is entered by one step, its body statements  *)
(* are steps of their own, and it is left by another step.  `stack` holds  *)
(* the local variables of the IfExprAST / WhileExprAST / ForExprAST        *)
(* codegen calls that are in progress.                                     *)
(*                                                                         *)
(* An IR type is a string ("i8", "i32", "void", ...); an instruction is a  *)
(* record; a block reference is <<function index, block index>>.  An       *)
(* exception is never caught (main has no handler): it ends the process.   *)
(* IRBuilder calls append without checking (a build without assertions).   *)
(***************************************************************************)
MaxStmts == 3

NoSlot == "none"

NullBB == <<0, 0>>

VarNames == {"a", "b", "i"}

FuncNames == {"main", "add"}

\* getTypeFromString of codegen.cpp ("unknown" stands for the exception;
\* slice types `[]T` do not occur in the programs lowered here)
getTypeFromString(typeStr) ==
    CASE typeStr \in {"u8", "i8"} -> "i8"
      [] typeStr \in {"u16", "i16"} -> "i16"
      [] typeStr \in {"u32", "i32"} -> "i32"
      [] typeStr = "bool" -> "i1"
      [] typeStr = "str" -> "slice"
      [] OTHER -> "unknown"

\* llvm::Type::getIntNTy
IntTy(w) ==
    CASE w = 1 -> "i1" [] w = 8 -> "i8" [] w = 16 -> "i16" [] w = 32 -> "i32"
      [] OTHER -> "i64"

\* an llvm::Instruction: opcode, type of its (first) value operand or result,
\* a name (variable, callee), the types of call arguments, branch targets
Instr(op, ty, name, tys, tgt) ==
    [op |-> op, ty |-> ty, name |-> name, tys |-> tys, tgt |-> tgt]

isTerminator(i) == i.op \in {"ret", "br", "condbr"}

\* BasicBlock::getTerminator() != nullptr: the last instruction is a terminator
getTerminator(bb) ==
    Len(bb.instrs) > 0 /\ isTerminator(bb.instrs[Len(bb.instrs)])

\* the instructions appended to block b of function f
Emit(mod, f, b, instrs) == [mod EXCEPT ![f].blocks[b].instrs = @ \o instrs]

\* BasicBlock::Create(Context, label, TheFunction) for each label, in order
CreateBlocks(mod, f, labels) ==
    [mod EXCEPT ![f].blocks =
        @ \o [k \in 1..Len(labels) |-> [label |-> labels[k], instrs |-> <<>>]]]

\* Module::getFunction(Name): index of the function of that name, 0 if none
getFunction(mod, name) ==
    IF \E k \in DOMAIN mod : mod[k].Name = name /\ mod[k].uniq = 0
    THEN CHOOSE k \in DOMAIN mod : mod[k].Name = name /\ mod[k].uniq = 0
    ELSE 0

\* the result of lowering an expression: the instructions emitted, the type
\* of the value, the exception thrown ("" for none)
Lowered(instrs, ty, err) == [instrs |-> instrs, ty |-> ty, err |-> err]

\* expressions: number literal, boolean literal, variable, call of a user
\* function with number-literal arguments
NumberExpr(v) == [k |-> "num", v |-> v, name |-> "", args |-> <<>>]
BooleanExpr == [k |-> "bool", v |-> 1, name |-> "", args |-> <<>>]
VariableExpr(n) == [k |-> "var", v |-> 0, name |-> n, args |-> <<>>]
CallExpr(callee, args) == [k |-> "call", v |-> 0, name |-> callee, args |-> args]

\* the type of the constant NumberExprAST::codegen returns for the literal v
NumberType(v) == IntTy(NumberExprAST_codegen(FromInt(v)).ty)

\* VariableExprAST::codegen
VariableExprAST_codegen(name) ==
    IF NamedValues[name] = NoSlot
    THEN Lowered(<<>>, "void", "Unknown variable name")
    ELSE Lowered(<<Instr("load", NamedValues[name], name, <<>>, <<>>)>>,
                 NamedValues[name], "")

\* CallExprAST::codegen for a user function; Args are number literals
CallExprAST_codegen(callee, args) ==
    LET CalleeF == getFunction(TheModule, callee)
    IN  IF CalleeF = 0
        THEN Lowered(<<>>, "void", "Unknown function referenced")
        ELSE IF Len(TheModule[CalleeF].ArgTypes) # Len(args)
        THEN Lowered(<<>>, "void", "Incorrect number of arguments passed")
        ELSE Lowered(<<Instr("call", TheModule[CalleeF].RetType, callee,
                             [k \in DOMAIN args |-> NumberType(args[k])], <<>>)>>,
                     TheModule[CalleeF].RetType, "")

\* ExprAST::codegen, by the kind of the node
ExprCodegen(e) ==
    CASE e.k = "num" -> Lowered(<<>>, NumberType(e.v), "")
      [] e.k = "bool" -> Lowered(<<>>, "i1", "")
      [] e.k = "var" -> VariableExprAST_codegen(e.name)
      [] OTHER -> CallExprAST_codegen(e.name, e.args)

\* ---- the programs -------------------------------------------------------
\* FunctionAST's as Parser::parseFunction builds them: is_extern excludes
\* is_export and a body
Params2 == << <<"a", "u32">>, <<"b", "u32">> >>

FunctionAST(name, args, ret, isExtern, isExport) ==
    [Name |-> name, Args |-> args, ReturnType |-> ret,
     isExtern |-> isExtern, isExport |-> isExport]

FunctionASTs ==
    { FunctionAST(n, <<>>, "", x[1], x[2]) :
        n \in FuncNames, x \in {<<FALSE, FALSE>>, <<FALSE, TRUE>>, <<TRUE, FALSE>>} }
    \cup { FunctionAST("main", <<>>, r, FALSE, FALSE) : r \in {"u8", "u32"} }
    \cup { FunctionAST("add", Params2, r, FALSE, FALSE) : r \in {"u8", "u32"} }

\* operands of return
ReturnOperands ==
    { NumberExpr(0), VariableExpr("a"), CallExpr("add", <<2, 3>>) }

\* call statements
CallStatements == { CallExpr("add", <<>>), CallExpr("add", <<2, 3>>) }

\* no initializer: `std::unique_ptr<ExprAST> init = nullptr`
NoInit == [k |-> "none", v |-> 0, name |-> "", args |-> <<>>]

\* `var a: T = 0;` and `var a: u32;`
VarDecls ==
    { [Name |-> "a", Type |-> t, Init |-> NumberExpr(0)] : t \in {"u8", "u32"} }
    \cup { [Name |-> "a", Type |-> "u32", Init |-> NoInit] }

\* the programs lowered: every single function, and pairs of functions
PairASTs ==
    { FunctionAST("add", Params2, "u32", FALSE, FALSE),
      FunctionAST("main", <<>>, "u32", FALSE, FALSE),
      FunctionAST("add", <<>>, "", TRUE, FALSE) }

Programs ==
    { <<f>> : f \in FunctionASTs } \cup { <<f, g>> : f \in PairASTs, g \in PairASTs }

InitCodegen ==
    /\ functions \in Programs
    /\ nextFn = 1
    /\ cgpc = "main"
    /\ cgError = ""
    /\ TheModule = <<>>
    /\ TheFunction = 0
    /\ InsertBlock = 0
    /\ NamedValues = [n \in VarNames |-> NoSlot]
    /\ CurrentLoopContinue = NullBB
    /\ CurrentLoopBreak = NullBB
    /\ stack = <<>>
    /\ nstmts = 0
    /\ lastStmt = [kind |-> "none", emitted |-> 0]

\* the linkage FunctionAST::codegen selects
Linkage_mainInternal(ast) ==
    IF ast.isExtern \/ ast.isExport THEN "external" ELSE "internal"

Linkage(ast) ==
    IF ast.isExtern \/ ast.isExport \/ ast.Name = "main" THEN "external" ELSE "internal"

\* llvm::Function::Create(FT, linkage, Name, TheModule): a second function of
\* a name is given a fresh one (uniq > 0) and getFunction finds the first
FunctionCreate(mod, ast) ==
    Append(mod,
        [Name |-> ast.Name,
         uniq |-> Cardinality({k \in DOMAIN mod : mod[k].Name = ast.Name}),
         isExtern |-> ast.isExtern, isExport |-> ast.isExport,
         linkage |-> Linkage(ast),
         RetType |-> IF ast.ReturnType = "" THEN "void"
                     ELSE getTypeFromString(ast.ReturnType),
         ArgTypes |-> [k \in DOMAIN ast.Args |-> getTypeFromString(ast.Args[k][2])],
         blocks |-> <<>>])

\* the alloca and store FunctionAST::codegen emits for the parameters
RECURSIVE ArgSlots(_)
ArgSlots(args) ==
    IF args = <<>> THEN <<>>
    ELSE <<Instr("alloca", getTypeFromString(args[1][2]), args[1][1], <<>>, <<>>),
           Instr("store", getTypeFromString(args[1][2]), args[1][1], <<>>, <<>>)>>
         \o ArgSlots(Tail(args))

\* NamedValues.clear()
NamedValuesClear_kept(old) == old

NamedValuesClear(old) == [n \in VarNames |-> NoSlot]

\* FunctionAST::codegen up to the loop over the body
FunctionBegin ==
    /\ cgpc = "main"
    /\ nextFn <= Len(functions)
    /\ nextFn' = nextFn + 1
    /\ LET ast == functions[nextFn]
           created == FunctionCreate(TheModule, ast)
           F == Len(created)
       IN  IF ast.isExtern
           THEN /\ TheModule' = created
                /\ UNCHANGED <<cgpc, TheFunction, InsertBlock, NamedValues>>
           ELSE /\ TheModule' = Emit(CreateBlocks(created, F, <<"entry">>), F, 1,
                                     ArgSlots(ast.Args))
                /\ TheFunction' = F
                /\ InsertBlock' = 1
                /\ NamedValues' =
                      [n \in VarNames |->
                          IF \E k \in DOMAIN ast.Args : ast.Args[k][1] = n
                          THEN getTypeFromString(
                                  ast.Args[CHOOSE k \in DOMAIN ast.Args :
                                               ast.Args[k][1] = n][2])
                          ELSE NamedValuesClear(NamedValues)[n]]
                /\ cgpc' = "body"
    /\ lastStmt' = [kind |-> "fn", emitted |-> 0]
    /\ UNCHANGED <<cgError, functions, CurrentLoopContinue, CurrentLoopBreak, stack,
                   nstmts, exceptCg>>

\* a statement that emits into the current block: instructions emitted, then
\* the exception (if any) leaves main
EmitStatement(kind, r, last) ==
    /\ cgpc = "body"
    /\ nstmts < MaxStmts
    /\ nstmts' = nstmts + 1
    /\ LET instrs == IF r.err = "" THEN r.instrs \o last ELSE r.instrs
       IN  /\ TheModule' = Emit(TheModule, TheFunction, InsertBlock, instrs)
           /\ lastStmt' = [kind |-> kind, emitted |-> Len(instrs)]
    /\ cgpc' = IF r.err = "" THEN "body" ELSE "aborted"
    /\ cgError' = r.err
    /\ UNCHANGED <<functions, nextFn, TheFunction, InsertBlock, CurrentLoopContinue,
                   CurrentLoopBreak, stack, exceptCg>>

\* ReturnExprAST::codegen
ReturnStmt(e) ==
    /\ LET r == ExprCodegen(e)
       IN  EmitStatement("return", r, <<Instr("ret", r.ty, "", <<>>, <<>>)>>)
    /\ UNCHANGED NamedValues

\* a call statement: CallExprAST::codegen
CallStmt(e) ==
    /\ EmitStatement("call", ExprCodegen(e), <<>>)
    /\ UNCHANGED NamedValues

\* VarDeclAST::codegen
VarDeclStmt(d) ==
    /\ LET VarType == getTypeFromString(d.Type)
           init == IF d.Init = NoInit THEN Lowered(<<>>, VarType, "")
                   ELSE ExprCodegen(d.Init)
           r == Lowered(<<Instr("alloca", VarType, d.Name, <<>>, <<>>)>> \o init.instrs,
                        init.ty, init.err)
       IN  /\ EmitStatement("vardecl", r, <<Instr("store", r.ty, d.Name, <<>>, <<>>)>>)
           /\ NamedValues' = IF r.err = "" THEN [NamedValues EXCEPT ![d.Name] = VarType]
                             ELSE NamedValues

\* BreakExprAST::codegen and ContinueExprAST::codegen
JumpStmt(kind, target, message) ==
    /\ EmitStatement(kind,
                     Lowered(<<>>, "void", IF target = NullBB THEN message ELSE ""),
                     <<Instr("br", "void", "", <<>>, <<target>>)>>)
    /\ UNCHANGED NamedValues

BreakStmt == JumpStmt("break", CurrentLoopBreak, "break statement not inside a loop")

ContinueStmt ==
    JumpStmt("continue", CurrentLoopContinue, "continue statement not inside a loop")

\* ---- call statements, print calls included -------------------------------
StringLiteralExpr == [k |-> "str", v |-> 0, name |-> "hi", args |-> <<>>]

\* a call whose arguments are expressions
CallOf(callee, args) == [name |-> callee, args |-> args]

PrintNames == {"print", "println", "printf"}

\* StringLiteralExprAST::codegen returns a constant of the slice struct type
ArgCodegen(e) ==
    IF e.k = "str" THEN Lowered(<<>>, "slice", "") ELSE ExprCodegen(e)

\* `for (i...) ArgsV.push_back(Args[i]->codegen(...))`: the arguments from k
\* on, in order, up to the first exception; ty collects the argument types
RECURSIVE LowerArgs(_, _, _)
LowerArgs(args, k, acc) ==
    IF k > Len(args) THEN acc
    ELSE LET a == ArgCodegen(args[k])
         IN  IF a.err # ""
             THEN Lowered(acc.instrs \o a.instrs, acc.ty, a.err)
             ELSE LowerArgs(args, k + 1,
                            Lowered(acc.instrs \o a.instrs, Append(acc.ty, a.ty), ""))

\* a variant without the comparison of arg_size() with Args.size()
ArityError_none(F, args) == FALSE

\* `CalleeF->arg_size() != Args.size()`
ArityError(F, args) == Len(F.ArgTypes) # Len(args)

\* CallExprAST::codegen past the test for the print functions
UserCall(mod, e) ==
    LET CalleeF == getFunction(mod, e.name)
    IN  IF CalleeF = 0
        THEN Lowered(<<>>, "void", "Unknown function referenced")
        ELSE IF ArityError(mod[CalleeF], e.args)
        THEN Lowered(<<>>, "void", "Incorrect number of arguments passed")
        ELSE LET ArgsV == LowerArgs(e.args, 1, Lowered(<<>>, <<>>, ""))
             IN  IF ArgsV.err # ""
                 THEN Lowered(ArgsV.instrs, "void", ArgsV.err)
                 ELSE Lowered(ArgsV.instrs
                                  \o <<Instr("call", mod[CalleeF].RetType, e.name,
                                             ArgsV.ty, <<>>)>>,
                              mod[CalleeF].RetType, "")

\* the declaration generatePrintCall adds for printf or puts if the module
\* has no function of that name
Declared(mod, name) ==
    IF getFunction(mod, name) # 0 THEN mod
    ELSE Append(mod,
            [Name |-> name, uniq |-> 0, isExtern |-> TRUE, isExport |-> FALSE,
             linkage |-> "external", RetType |-> "i32", ArgTypes |-> <<"ptr">>,
             blocks |-> <<>>])

\* a variant that takes printf with one argument as it takes print
SimplePrint_printf(callee, args) == callee \in {"print", "printf"} /\ Len(args) = 1

\* `Callee == "print" && Args.size() == 1`
SimplePrint(callee, args) == callee = "print" /\ Len(args) = 1

\* CallExprAST::generatePrintCall, in the module with the two declarations
generatePrintCall(mod, e) ==
    LET simple(func) ==
            LET arg == ArgCodegen(e.args[1])
                ptr == IF arg.ty = "slice"
                       THEN <<Instr("extractvalue", "slice", "str_ptr", <<>>, <<>>)>>
                       ELSE <<>>
                argTy == IF arg.ty = "slice" THEN "ptr" ELSE arg.ty
            IN  IF arg.err # "" THEN Lowered(arg.instrs, "void", arg.err)
                ELSE Lowered(arg.instrs \o ptr
                                 \o <<Instr("call", "i32", func,
                                            IF func = "printf" THEN <<"ptr", argTy>>
                                            ELSE <<argTy>>, <<>>)>>,
                             "i32", "")
    IN  IF e.name = "println" /\ Len(e.args) = 1 THEN simple("puts")
        ELSE IF SimplePrint(e.name, e.args) THEN simple("printf")
        ELSE Lowered(<<>>, "void", "Complex print formatting not yet implemented")

\* CallExprAST::codegen: the module it leaves and what it lowered
CallCodegen(mod, e) ==
    IF e.name \in PrintNames
    THEN LET declared == Declared(Declared(mod, "printf"), "puts")
         IN  [mod |-> declared, r |-> generatePrintCall(declared, e)]
    ELSE [mod |-> mod, r |-> UserCall(mod, e)]

\* the functions of the programs with calls: main, add with two parameters
\* (defined or extern), and a user function named like a print function
CallFunctionASTs ==
    { FunctionAST("main", <<>>, "", FALSE, FALSE),
      FunctionAST("add", Params2, "u32", FALSE, FALSE),
      FunctionAST("add", Params2, "u32", TRUE, FALSE),
      FunctionAST("println", <<>>, "", FALSE, FALSE) }

CallPrograms ==
    { <<f>> : f \in CallFunctionASTs }
        \cup { <<f, g>> : f \in CallFunctionASTs, g \in CallFunctionASTs }

Callees == {"add", "main", "puts"} \cup PrintNames

ArgLists ==
    { <<>>, <<StringLiteralExpr>>, <<VariableExpr("a")>>, <<VariableExpr("i")>>,
      <<NumberExpr(2), NumberExpr(3)>>, <<VariableExpr("i"), NumberExpr(3)>> }

Calls == { CallOf(callee, args) : callee \in Callees, args \in ArgLists }

InitCalls ==
    /\ functions \in CallPrograms
    /\ nextFn = 1
    /\ cgpc = "main"
    /\ cgError = ""
    /\ TheModule = <<>>
    /\ TheFunction = 0
    /\ InsertBlock = 0
    /\ NamedValues = [n \in VarNames |-> NoSlot]
    /\ CurrentLoopContinue = NullBB
    /\ CurrentLoopBreak = NullBB
    /\ stack = <<>>
    /\ nstmts = 0
    /\ lastStmt = [kind |-> "none", emitted |-> 0]

\* a call statement: CallExprAST::codegen.  lastStmt also keeps the call,
\* the module it found and the instructions it emitted
CallStatement(e) ==
    /\ cgpc = "body"
    /\ nstmts < MaxStmts
    /\ nstmts' = nstmts + 1
    /\ LET out == CallCodegen(TheModule, e)
       IN  /\ TheModule' = Emit(out.mod, TheFunction, InsertBlock, out.r.instrs)
           /\ lastStmt' = [kind |-> "call", emitted |-> Len(out.r.instrs),
                           call |-> e, before |-> TheModule, instrs |-> out.r.instrs]
           /\ cgpc' = IF out.r.err = "" THEN "body" ELSE "aborted"
           /\ cgError' = out.r.err
    /\ UNCHANGED <<functions, nextFn, TheFunction, InsertBlock, NamedValues,
                   CurrentLoopContinue, CurrentLoopBreak, stack, exceptCg>>

\* ---- compound statements ------------------------------------------------
\* the locals of an IfExprAST / WhileExprAST / ForExprAST codegen call
Frame(kind, bbs, prev, VarName, OldVal) ==
    [kind |-> kind,
     ThenBB |-> bbs[1], ElseBB |-> bbs[2], MergeBB |-> bbs[3],
     CondBB |-> bbs[1], LoopBB |-> bbs[2], IncrBB |-> bbs[3], AfterBB |-> bbs[4],
     PrevContinue |-> prev[1], PrevBreak |-> prev[2],
     VarName |-> VarName, OldVal |-> OldVal]

Top == stack[Len(stack)]

Pop == SubSeq(stack, 1, Len(stack) - 1)

BlockRef(b) == <<TheFunction, b>>

\* `if (!Builder.GetInsertBlock()->getTerminator()) Builder.CreateBr(target)`
BranchUnlessTerminated(mod, target) ==
    IF getTerminator(mod[TheFunction].blocks[InsertBlock])
    THEN mod
    ELSE Emit(mod, TheFunction, InsertBlock,
              <<Instr("br", "void", "", <<>>, <<BlockRef(target)>>)>>)

\* what a step that opens or closes a compound statement leaves alone
CompoundStep(kind, mod) ==
    /\ cgpc = "body"
    /\ TheModule' = mod
    /\ lastStmt' = [kind |-> kind, emitted |-> 0]
    /\ UNCHANGED <<cgpc, cgError, functions, nextFn, TheFunction, exceptCg>>

\* IfExprAST::codegen up to the loop over ThenBody; the condition is a
\* boolean literal, so `CondV != 0` folds to a constant
IfBegin ==
    /\ nstmts < MaxStmts
    /\ nstmts' = nstmts + 1
    /\ LET n == Len(TheModule[TheFunction].blocks)
           ThenBB == n + 1
           ElseBB == n + 2
           MergeBB == n + 3
           mod == CreateBlocks(TheModule, TheFunction, <<"then", "else", "ifcont">>)
       IN  /\ CompoundStep("if",
                 Emit(mod, TheFunction, InsertBlock,
                      <<Instr("condbr", "i1", "", <<>>,
                              <<BlockRef(ThenBB), BlockRef(ElseBB)>>)>>))
           /\ InsertBlock' = ThenBB
           /\ stack' = Append(stack,
                 Frame("then", <<ThenBB, ElseBB, MergeBB, 0>>, <<NullBB, NullBB>>, "", NoSlot))
    /\ UNCHANGED <<NamedValues, CurrentLoopContinue, CurrentLoopBreak>>

\* IfExprAST::codegen between ThenBody and ElseBody
IfElse ==
    /\ stack # <<>> /\ Top.kind = "then"
    /\ CompoundStep("else", BranchUnlessTerminated(TheModule, Top.MergeBB))
    /\ InsertBlock' = Top.ElseBB
    /\ stack' = [stack EXCEPT ![Len(stack)].kind = "else"]
    /\ UNCHANGED <<NamedValues, CurrentLoopContinue, CurrentLoopBreak, nstmts>>

\* IfExprAST::codegen after ElseBody
IfEnd ==
    /\ stack # <<>> /\ Top.kind = "else"
    /\ CompoundStep("endif", BranchUnlessTerminated(TheModule, Top.MergeBB))
    /\ InsertBlock' = Top.MergeBB
    /\ stack' = Pop
    /\ UNCHANGED <<NamedValues, CurrentLoopContinue, CurrentLoopBreak, nstmts>>

\* the loop context the body of a while loop is lowered in
WhileContext(CondBB, AfterBB) == [continue |-> CondBB, break |-> AfterBB]

\* the loop context the body of a for loop is lowered in
ForContext_continueToCond(CondBB, IncrBB, AfterBB) ==
    [continue |-> CondBB, break |-> AfterBB]

ForContext(CondBB, IncrBB, AfterBB) == [continue |-> IncrBB, break |-> AfterBB]

\* the loop context a loop's codegen leaves behind
RestoredContext_kept(frame, cur) == cur

RestoredContext_breakOnly(frame, cur) ==
    [continue |-> cur.continue, break |-> frame.PrevBreak]

RestoredContext(frame, cur) ==
    [continue |-> frame.PrevContinue, break |-> frame.PrevBreak]

\* WhileExprAST::codegen up to the loop over Body
WhileBegin ==
    /\ nstmts < MaxStmts
    /\ nstmts' = nstmts + 1
    /\ LET n == Len(TheModule[TheFunction].blocks)
           CondBB == n + 1
           LoopBB == n + 2
           AfterBB == n + 3
           ctx == WhileContext(BlockRef(CondBB), BlockRef(AfterBB))
           mod1 == CreateBlocks(TheModule, TheFunction,
                                <<"whilecond", "whileloop", "afterloop">>)
           mod2 == Emit(mod1, TheFunction, InsertBlock,
                        <<Instr("br", "void", "", <<>>, <<BlockRef(CondBB)>>)>>)
           mod3 == Emit(mod2, TheFunction, CondBB,
                        <<Instr("condbr", "i1", "", <<>>,
                                <<BlockRef(LoopBB), BlockRef(AfterBB)>>)>>)
       IN  /\ CompoundStep("while", mod3)
           /\ InsertBlock' = LoopBB
           /\ CurrentLoopContinue' = ctx.continue
           /\ CurrentLoopBreak' = ctx.break
           /\ stack' = Append(stack,
                 Frame("while", <<CondBB, LoopBB, 0, AfterBB>>,
                       <<CurrentLoopContinue, CurrentLoopBreak>>, "", NoSlot))
    /\ UNCHANGED NamedValues

\* WhileExprAST::codegen after Body
WhileEnd ==
    /\ stack # <<>> /\ Top.kind = "while"
    /\ CompoundStep("endwhile", BranchUnlessTerminated(TheModule, Top.CondBB))
    /\ InsertBlock' = Top.AfterBB
    /\ LET ctx == RestoredContext(Top, [continue |-> CurrentLoopContinue,
                                        break |-> CurrentLoopBreak])
       IN  /\ CurrentLoopContinue' = ctx.continue
           /\ CurrentLoopBreak' = ctx.break
    /\ stack' = Pop
    /\ UNCHANGED <<NamedValues, nstmts>>

\* ForExprAST::codegen up to the loop over Body, for `for i in <s>:<e>` with
\* number literals: the start and end values are constants, the cast folds
ForBegin(VarName, s, e) ==
    /\ nstmts < MaxStmts
    /\ nstmts' = nstmts + 1
    /\ LET VarType == IntTy(ForVarType(NumberExprAST_codegen(FromInt(s))))
           n == Len(TheModule[TheFunction].blocks)
           CondBB == n + 1
           LoopBB == n + 2
           IncrBB == n + 3
           AfterBB == n + 4
           ctx == ForContext(BlockRef(CondBB), BlockRef(IncrBB), BlockRef(AfterBB))
           mod0 == Emit(TheModule, TheFunction, InsertBlock,
                        <<Instr("alloca", VarType, VarName, <<>>, <<>>),
                          Instr("store", VarType, VarName, <<>>, <<>>)>>)
           mod1 == CreateBlocks(mod0, TheFunction,
                                <<"forcond", "forloop", "forincr", "afterloop">>)
           mod2 == Emit(mod1, TheFunction, InsertBlock,
                        <<Instr("br", "void", "", <<>>, <<BlockRef(CondBB)>>)>>)
           mod3 == Emit(mod2, TheFunction, CondBB,
                        <<Instr("load", VarType, VarName, <<>>, <<>>),
                          Instr("icmp slt", VarType, "forcond", <<>>, <<>>),
                          Instr("condbr", "i1", "", <<>>,
                                <<BlockRef(LoopBB), BlockRef(AfterBB)>>)>>)
       IN  /\ CompoundStep("for", mod3)
           /\ InsertBlock' = LoopBB
           /\ NamedValues' = [NamedValues EXCEPT ![VarName] = VarType]
           /\ CurrentLoopContinue' = ctx.continue
           /\ CurrentLoopBreak' = ctx.break
           /\ stack' = Append(stack,
                 Frame("for", <<CondBB, LoopBB, IncrBB, AfterBB>>,
                       <<CurrentLoopContinue, CurrentLoopBreak>>,
                       VarName, NamedValues[VarName]))

\* `if (OldVal) NamedValues[VarName] = OldVal; else NamedValues.erase(VarName);`
RestoredValues_kept(values, frame) == values

RestoredValues(values, frame) == [values EXCEPT ![frame.VarName] = frame.OldVal]

\* ForExprAST::codegen after Body
ForEnd ==
    /\ stack # <<>> /\ Top.kind = "for"
    /\ LET VarType == NamedValues[Top.VarName]
           mod1 == BranchUnlessTerminated(TheModule, Top.IncrBB)
           mod2 == Emit(mod1, TheFunction, Top.IncrBB,
                        <<Instr("load", VarType, Top.VarName, <<>>, <<>>),
                          Instr("add", VarType, "nextvar", <<>>, <<>>),
                          Instr("store", VarType, Top.VarName, <<>>, <<>>),
                          Instr("br", "void", "", <<>>, <<BlockRef(Top.CondBB)>>)>>)
       IN  CompoundStep("endfor", mod2)
    /\ InsertBlock' = Top.AfterBB
    /\ NamedValues' = RestoredValues(NamedValues, Top)
    /\ LET ctx == RestoredContext(Top, [continue |-> CurrentLoopContinue,
                                        break |-> CurrentLoopBreak])
       IN  /\ CurrentLoopContinue' = ctx.continue
           /\ CurrentLoopBreak' = ctx.break
    /\ stack' = Pop
    /\ UNCHANGED nstmts

\* llvm::verifyFunction(F): TRUE if F is broken.  Of the verifier's rules:
\* every block ends in a terminator and holds no other one, and the operand
\* of a ret has the return type of the function
verifyFunction(F) ==
    \E b \in DOMAIN F.blocks :
        LET instrs == F.blocks[b].instrs
        IN  \/ instrs = <<>>
            \/ ~isTerminator(instrs[Len(instrs)])
            \/ \E k \in 1..(Len(instrs) - 1) : isTerminator(instrs[k])
            \/ \E k \in DOMAIN instrs : instrs[k].op = "ret" /\ instrs[k].ty # F.RetType

\* FunctionAST::codegen after the loop over the body: the implicit return of
\* a void function, verifyFunction (its result is not looked at), return F
FunctionEnd ==
    /\ cgpc = "body"
    /\ stack = <<>>
    /\ LET bb == TheModule[TheFunction].blocks[InsertBlock]
           implicit == TheModule[TheFunction].RetType = "void" /\ ~getTerminator(bb)
       IN  /\ TheModule' = IF implicit
                           THEN Emit(TheModule, TheFunction, InsertBlock,
                                     <<Instr("ret", "void", "", <<>>, <<>>)>>)
                           ELSE TheModule
           /\ lastStmt' = [kind |-> "end", emitted |-> IF implicit THEN 1 ELSE 0]
    /\ cgpc' = "main"
    /\ TheFunction' = 0
    /\ UNCHANGED <<cgError, functions, nextFn, InsertBlock, NamedValues,
                   CurrentLoopContinue, CurrentLoopBreak, stack, nstmts, exceptCg>>

-----------------------------------------------------------------------------
(***************************************************************************)
(* SpecParser: Parser::parse (parser.cpp).  The input is the token vector  *)
(* the scanner returns; a lexeme is written as one string.  A parse        *)
(* function is an operator from the cursor it is entered with to           *)
(* Res(cur, ast, err): the cursor it leaves, the tree it returns and the   *)
(* what() of the exception it throws ("" if it returns).  One step of the  *)
(* model is one iteration of the loop of Parser::parse.                    *)
(***************************************************************************)
MaxFns == 2

\* the token the scanner makes of a word of the source text
WordType(w) ==
    CASE w = "fn" -> "TOK_FN"
      [] w = "return" -> "TOK_RETURN"
      [] w = "const" -> "TOK_CONST"
      [] w = "var" -> "TOK_VAR"
      [] w = "if" -> "TOK_IF"
      [] w = "else" -> "TOK_ELSE"
      [] w = "while" -> "TOK_WHILE"
      [] w = "for" -> "TOK_FOR"
      [] w = "break" -> "TOK_BREAK"
      [] w = "continue" -> "TOK_CONTINUE"
      [] w = "in" -> "TOK_IN"
      [] w = "true" -> "TOK_TRUE"
      [] w = "false" -> "TOK_FALSE"
      [] w = "extern" -> "TOK_EXTERN"
      [] w = "export" -> "TOK_EXPORT"
      [] w \in {"u8", "u16", "u32", "i8", "i16", "i32", "bool", "str"} -> "TOK_TYPE"
      [] SingleCharToken(w) # "NONE" -> SingleCharToken(w)
      [] w = "=" -> "TOK_EQUAL"
      [] w = "==" -> "TOK_EQUAL_EQUAL"
      [] w = "!=" -> "TOK_NOT_EQUAL"
      [] w = "<" -> "TOK_LESS"
      [] w = "<=" -> "TOK_LESS_EQUAL"
      [] w = ">" -> "TOK_GREATER"
      [] w = ">=" -> "TOK_GREATER_EQUAL"
      [] w = "->" -> "TOK_ARROW"
      [] w = "-" -> "TOK_MINUS"
      [] w \in Digits -> "TOK_NUMBER"
      [] OTHER -> "TOK_IDENTIFIER"

Words(ws) == [k \in DOMAIN ws |-> Token(WordType(ws[k]), ws[k], 1)]

\* the result of a parse function
Res(cur, ast, err) == [cur |-> cur, ast |-> ast, err |-> err]

NoAst == <<>>

Parser_peek(cur) == ptokens[cur + 1]

Parser_isAtEnd(cur) == Parser_peek(cur).type = "TOK_EOF"

\* Parser::previous: tokens[current - 1]
Parser_previous(cur) == ptokens[cur]

\* the cursor Parser::advance leaves
Parser_advance(cur) == IF ~Parser_isAtEnd(cur) THEN cur + 1 ELSE cur

Parser_check(cur, type) == ~Parser_isAtEnd(cur) /\ Parser_peek(cur).type = type

Parser_consume(cur, type, message) ==
    IF Parser_check(cur, type)
    THEN Res(Parser_advance(cur), NoAst, "")
    ELSE Res(cur, NoAst, message)

\* `throw std::runtime_error("Expected primary expression")`
PrimaryError_skip(cur) == Res(Parser_advance(cur), <<"Number", "0">>, "")

\* a variant that returns a node instead of throwing
PrimaryError_quiet(cur) == Res(cur, <<"Number", "0">>, "")

PrimaryError(cur) == Res(cur, NoAst, "Expected primary expression")

\* r, or what `rest` makes of it if r is not an exception.  (The result r is
\* bound as a value, so that it is computed once.)
Bind(r, rest(_)) ==
    CHOOSE y \in { (IF x.err # "" THEN x ELSE rest(x)) : x \in {r} } : TRUE

RECURSIVE parseType(_)
RECURSIVE parsePrimary(_)
RECURSIVE parseAddition(_)
RECURSIVE parseComparison(_)
RECURSIVE parseExpression(_)
RECURSIVE ParseArgs(_, _)
RECURSIVE ParseStatements(_, _)

\* Parser::parseType
parseType(cur) ==
    IF Parser_check(cur, "TOK_OPEN_BRACKET")
    THEN Bind(Parser_consume(cur + 1, "TOK_CLOSE_BRACKET", "Expected ']' after '['"),
              LAMBDA c :
                  Bind(parseType(c.cur),
                       LAMBDA elementType :
                           Res(elementType.cur, "[]" \o elementType.ast, "")))
    ELSE IF Parser_check(cur, "TOK_TYPE")
    THEN Res(cur + 1, Parser_peek(cur).lexeme, "")
    ELSE Res(cur, NoAst, "Expected type")

\* `do { args.push_back(parseComparison()); } while (match(TOK_COMMA));`
ParseArgs(cur, args) ==
    Bind(parseComparison(cur),
         LAMBDA e :
             IF Parser_check(e.cur, "TOK_COMMA")
             THEN ParseArgs(e.cur + 1, Append(args, e.ast))
             ELSE Res(e.cur, Append(args, e.ast), ""))

\* Parser::parsePrimary
parsePrimary(cur) ==
    CASE Parser_check(cur, "TOK_NUMBER") ->
            Res(cur + 1, <<"Number", Parser_peek(cur).lexeme>>, "")
      [] Parser_check(cur, "TOK_TRUE") -> Res(cur + 1, <<"Boolean", "true">>, "")
      [] Parser_check(cur, "TOK_FALSE") -> Res(cur + 1, <<"Boolean", "false">>, "")
      [] Parser_check(cur, "TOK_STRING_LITERAL") ->
            Res(cur + 1, <<"StringLiteral", Parser_peek(cur).lexeme>>, "")
      [] Parser_check(cur, "TOK_OPEN_PAREN") ->
            Bind(parseExpression(cur + 1),
                 LAMBDA expr :
                     Bind(Parser_consume(expr.cur, "TOK_CLOSE_PAREN",
                                         "Expected ')' after expression"),
                          LAMBDA c : Res(c.cur, expr.ast, "")))
      [] Parser_check(cur, "TOK_IDENTIFIER") ->
            IF Parser_check(cur + 1, "TOK_OPEN_PAREN")
            THEN Bind(IF ~Parser_check(cur + 2, "TOK_CLOSE_PAREN")
                      THEN ParseArgs(cur + 2, <<>>)
                      ELSE Res(cur + 2, <<>>, ""),
                      LAMBDA args :
                          Bind(Parser_consume(args.cur, "TOK_CLOSE_PAREN",
                                              "Expected ')' after function arguments"),
                               LAMBDA c :
                                   Res(c.cur, <<"Call", Parser_peek(cur).lexeme, args.ast>>,
                                       "")))
            ELSE Res(cur + 1, <<"Variable", Parser_peek(cur).lexeme>>, "")
      [] OTHER -> PrimaryError(cur)

\* a variant that takes a second `+` and nests the Binary nodes
parseAddition_chained(cur) ==
    Bind(parsePrimary(cur),
         LAMBDA LHS :
             IF Parser_check(LHS.cur, "TOK_PLUS")
             THEN Bind(parsePrimary(LHS.cur + 1),
                       LAMBDA RHS :
                           IF Parser_check(RHS.cur, "TOK_PLUS")
                           THEN Bind(parsePrimary(RHS.cur + 1),
                                     LAMBDA more :
                                         Res(more.cur,
                                             <<"Binary", "+",
                                               <<"Binary", "+", LHS.ast, RHS.ast>>,
                                               more.ast>>, ""))
                           ELSE Res(RHS.cur, <<"Binary", "+", LHS.ast, RHS.ast>>, ""))
             ELSE LHS)

\* Parser::parseAddition
parseAddition(cur) ==
    Bind(parsePrimary(cur),
         LAMBDA LHS :
             IF Parser_check(LHS.cur, "TOK_PLUS")
             THEN Bind(parsePrimary(LHS.cur + 1),
                       LAMBDA RHS : Res(RHS.cur, <<"Binary", "+", LHS.ast, RHS.ast>>, ""))
             ELSE LHS)

ComparisonTokens ==
    {"TOK_EQUAL_EQUAL", "TOK_NOT_EQUAL", "TOK_LESS", "TOK_LESS_EQUAL",
     "TOK_GREATER", "TOK_GREATER_EQUAL"}

\* Parser::parseComparison (the operator of the Binary node is the lexeme)
parseComparison(cur) ==
    Bind(parseAddition(cur),
         LAMBDA LHS :
             IF ~Parser_isAtEnd(LHS.cur) /\ Parser_peek(LHS.cur).type \in ComparisonTokens
             THEN Bind(parseAddition(LHS.cur + 1),
                       LAMBDA RHS :
                           Res(RHS.cur,
                               <<"Binary", Parser_peek(LHS.cur).lexeme, LHS.ast, RHS.ast>>,
                               ""))
             ELSE LHS)

\* `while (!check(TOK_CLOSE_BRACE) && !isAtEnd()) body.push_back(parseExpression());`
ParseStatements(cur, body) ==
    IF ~Parser_check(cur, "TOK_CLOSE_BRACE") /\ ~Parser_isAtEnd(cur)
    THEN Bind(parseExpression(cur),
              LAMBDA e : ParseStatements(e.cur, Append(body, e.ast)))
    ELSE Res(cur, body, "")

\* consume('{'), the statements, consume('}')
ParseBlock(cur, openMessage, closeMessage) ==
    Bind(Parser_consume(cur, "TOK_OPEN_BRACE", openMessage),
         LAMBDA o :
             Bind(ParseStatements(o.cur, <<>>),
                  LAMBDA body :
                      Bind(Parser_consume(body.cur, "TOK_CLOSE_BRACE", closeMessage),
                           LAMBDA c : Res(c.cur, body.ast, ""))))

\* consume('('), the condition, consume(')')
ParseCondition(cur, openMessage, closeMessage) ==
    Bind(Parser_consume(cur, "TOK_OPEN_PAREN", openMessage),
         LAMBDA o :
             Bind(parseComparison(o.cur),
                  LAMBDA condition :
                      Bind(Parser_consume(condition.cur, "TOK_CLOSE_PAREN", closeMessage),
                           LAMBDA c : Res(c.cur, condition.ast, ""))))

\* an expression and the `;` that ends its statement
ParseThenSemi(r, make(_), message) ==
    Bind(r, LAMBDA e :
                Bind(Parser_consume(e.cur, "TOK_SEMI", message),
                     LAMBDA s : Res(s.cur, make(e.ast), "")))

\* Parser::parseExpression, the branch of `const` and `var`
ParseVarDecl(cur) ==
    Bind(Parser_consume(cur + 1, "TOK_IDENTIFIER", "Expected variable name"),
         LAMBDA n :
             Bind(IF Parser_check(n.cur, "TOK_COLON")
                  THEN parseType(n.cur + 1)
                  ELSE Res(n.cur, "u8", ""),
                  LAMBDA type :
                      ParseThenSemi(
                          IF Parser_check(type.cur, "TOK_EQUAL")
                          THEN parseComparison(type.cur + 1)
                          ELSE Res(type.cur, NoAst, ""),
                          LAMBDA init :
                              <<"VarDecl", Parser_peek(cur + 1).lexeme, type.ast,
                                Parser_peek(cur).type = "TOK_CONST", init>>,
                          "Expected ';' after variable declaration")))

\* Parser::parseExpression, the branch of `if`
ParseIf(cur) ==
    Bind(ParseCondition(cur + 1, "Expected '(' after 'if'",
                        "Expected ')' after if condition"),
         LAMBDA condition :
             Bind(ParseBlock(condition.cur, "Expected '{' after if condition",
                             "Expected '}' after if body"),
                  LAMBDA thenBody :
                      Bind(IF Parser_check(thenBody.cur, "TOK_ELSE")
                           THEN ParseBlock(thenBody.cur + 1, "Expected '{' after 'else'",
                                           "Expected '}' after else body")
                           ELSE Res(thenBody.cur, <<>>, ""),
                           LAMBDA elseBody :
                               Res(elseBody.cur,
                                   <<"If", condition.ast, thenBody.ast, elseBody.ast>>,
                                   ""))))

\* Parser::parseExpression, the branch of `while`
ParseWhile(cur) ==
    Bind(ParseCondition(cur + 1, "Expected '(' after 'while'",
                        "Expected ')' after while condition"),
         LAMBDA condition :
             Bind(ParseBlock(condition.cur, "Expected '{' after while condition",
                             "Expected '}' after while body"),
                  LAMBDA body : Res(body.cur, <<"While", condition.ast, body.ast>>, "")))

\* Parser::parseExpression, the branch of `for`
ParseFor(cur) ==
    Bind(Parser_consume(cur + 1, "TOK_IDENTIFIER", "Expected variable name after 'for'"),
         LAMBDA v :
    Bind(Parser_consume(v.cur, "TOK_IN", "Expected 'in' after for variable"),
         LAMBDA i :
    Bind(parseComparison(i.cur),
         LAMBDA start :
    Bind(Parser_consume(start.cur, "TOK_COLON", "Expected ':' in for range"),
         LAMBDA c :
    Bind(parseComparison(c.cur),
         LAMBDA end :
    Bind(ParseBlock(end.cur, "Expected '{' after for range", "Expected '}' after for body"),
         LAMBDA body :
             Res(body.cur,
                 <<"For", Parser_peek(cur + 1).lexeme, start.ast, end.ast, body.ast>>,
                 "")))))))

\* a variant that leaves the cursor after the identifier it looked past
ExpressionStatement_ahead(cur) ==
    parseComparison(IF Parser_check(cur, "TOK_IDENTIFIER") THEN Parser_advance(cur) ELSE cur)

\* the end of Parser::parseExpression: no keyword and no call; the cursor is
\* back at saved_current and the statement is one comparison
ExpressionStatement(cur) == parseComparison(cur)

\* Parser::parseExpression
parseExpression(cur) ==
    CASE Parser_check(cur, "TOK_RETURN") ->
            ParseThenSemi(parseComparison(cur + 1), LAMBDA e : <<"Return", e>>,
                          "Expected ';' after return statement")
      [] Parser_check(cur, "TOK_CONST") \/ Parser_check(cur, "TOK_VAR") -> ParseVarDecl(cur)
      [] Parser_check(cur, "TOK_IF") -> ParseIf(cur)
      [] Parser_check(cur, "TOK_WHILE") -> ParseWhile(cur)
      [] Parser_check(cur, "TOK_FOR") -> ParseFor(cur)
      [] Parser_check(cur, "TOK_BREAK") ->
            ParseThenSemi(Res(cur + 1, NoAst, ""), LAMBDA e : <<"Break">>,
                          "Expected ';' after break")
      [] Parser_check(cur, "TOK_CONTINUE") ->
            ParseThenSemi(Res(cur + 1, NoAst, ""), LAMBDA e : <<"Continue">>,
                          "Expected ';' after continue")
      [] Parser_check(cur, "TOK_IDENTIFIER")
            /\ Parser_check(Parser_advance(cur), "TOK_OPEN_PAREN") ->
            ParseThenSemi(parseComparison(cur), LAMBDA e : e,
                          "Expected ';' after function call")
      [] OTHER -> ExpressionStatement(cur)

\* the `extern` / `export` prefix of Parser::parseFunction
FunctionPrefix_both(cur) ==
    LET e == IF Parser_check(cur, "TOK_EXTERN") THEN cur + 1 ELSE cur
        x == IF Parser_check(e, "TOK_EXPORT") THEN e + 1 ELSE e
    IN  [isExtern |-> e # cur, isExport |-> x # e, cur |-> x, err |-> ""]

FunctionPrefix(cur) ==
    IF Parser_check(cur, "TOK_EXTERN")
    THEN [isExtern |-> TRUE, isExport |-> FALSE, cur |-> cur + 1, err |-> ""]
    ELSE IF Parser_check(cur, "TOK_EXPORT")
    THEN [isExtern |-> FALSE, isExport |-> TRUE, cur |-> cur + 1, err |-> ""]
    ELSE [isExtern |-> FALSE, isExport |-> FALSE, cur |-> cur, err |-> ""]

\* the parameter loop of Parser::parseFunction
RECURSIVE ParseParams(_, _)
ParseParams(cur, args) ==
    Bind(Parser_consume(cur, "TOK_IDENTIFIER", "Expected parameter name"),
         LAMBDA n :
    Bind(Parser_consume(n.cur, "TOK_COLON", "Expected ':' after parameter name"),
         LAMBDA c :
    Bind(parseType(c.cur),
         LAMBDA paramType :
             IF Parser_check(paramType.cur, "TOK_COMMA")
             THEN ParseParams(paramType.cur + 1,
                              Append(args, <<Parser_peek(cur).lexeme, paramType.ast>>))
             ELSE Res(paramType.cur,
                      Append(args, <<Parser_peek(cur).lexeme, paramType.ast>>), ""))))

\* the FunctionAST Parser::parseFunction builds
ParsedFunction(name, args, returnType, body, isExtern, isExport) ==
    [Name |-> name, Args |-> args, ReturnType |-> returnType, Body |-> body,
     isExtern |-> isExtern, isExport |-> isExport]

\* Parser::parseFunction from `fn` to the return type
ParseSignature(cur) ==
    Bind(Parser_consume(cur, "TOK_FN", "Expected 'fn' keyword"),
         LAMBDA f :
    Bind(Parser_consume(f.cur, "TOK_IDENTIFIER", "Expected function name"),
         LAMBDA n :
    Bind(Parser_consume(n.cur, "TOK_OPEN_PAREN", "Expected '(' after function name"),
         LAMBDA o :
    Bind(IF ~Parser_check(o.cur, "TOK_CLOSE_PAREN")
         THEN ParseParams(o.cur, <<>>)
         ELSE Res(o.cur, <<>>, ""),
         LAMBDA args :
    Bind(Parser_consume(args.cur, "TOK_CLOSE_PAREN", "Expected ')' after parameters"),
         LAMBDA c :
    Bind(IF Parser_check(c.cur, "TOK_ARROW") THEN parseType(c.cur + 1) ELSE Res(c.cur, "", ""),
         LAMBDA returnType :
             Res(returnType.cur,
                 <<Parser_peek(f.cur).lexeme, args.ast, returnType.ast>>, "")))))))

\* Parser::parseFunction
parseFunction(cur) ==
    Bind(FunctionPrefix(cur),
         LAMBDA prefix :
    Bind(ParseSignature(prefix.cur),
         LAMBDA sig :
             IF prefix.isExtern
             THEN Bind(Parser_consume(sig.cur, "TOK_SEMI",
                                      "Expected ';' after extern function declaration"),
                       LAMBDA s :
                           Res(s.cur,
                               ParsedFunction(sig.ast[1], sig.ast[2], sig.ast[3], <<>>,
                                              TRUE, FALSE),
                               ""))
             ELSE Bind(ParseBlock(sig.cur, "Expected '{' before function body",
                                  "Expected '}' after function body"),
                       LAMBDA body :
                           Res(body.cur,
                               ParsedFunction(sig.ast[1], sig.ast[2], sig.ast[3], body.ast,
                                              FALSE, prefix.isExport),
                               ""))))

\* ---- the programs parsed ------------------------------------------------
\* function definitions the grammar derives, as the words of their text
WellFormedTexts ==
    { <<"fn", "main", "(", ")", "{", "}">>,
      <<"fn", "main", "(", ")", "->", "u32", "{", "return", "0", ";", "}">>,
      <<"fn", "add", "(", "a", ":", "u32", ",", "b", ":", "u32", ")", "->", "u32",
        "{", "return", "a", "+", "b", ";", "}">>,
      <<"extern", "fn", "puts", "(", "s", ":", "str", ")", "->", "i32", ";">>,
      <<"export", "fn", "f", "(", ")", "{", "var", "x", ":", "u8", "=", "1", ";",
        "if", "(", "x", "==", "1", ")", "{", "f", "(", ")", ";", "}",
        "else", "{", "return", "(", "x", ")", ";", "}", "}">>,
      <<"fn", "g", "(", "s", ":", "[", "]", "u8", ")", "{",
        "while", "(", "true", ")", "{", "break", ";", "}",
        "for", "i", "in", "0", ":", "3", "{", "g", "(", "1", ",", "2", ")", ";",
        "continue", ";", "}", "const", "c", "=", "1", ";", "}">> }

\* both keywords before `fn`
BothKeywordTexts ==
    { <<"extern", "export", "fn", "f", "(", ")", ";">>,
      <<"export", "extern", "fn", "f", "(", ")", ";">>,
      <<"extern", "export", "fn", "f", "(", ")", "{", "}">>,
      <<"export", "extern", "fn", "f", "(", ")", "{", "}">> }

\* an extern function with a body
ExternBodyTexts == { <<"extern", "fn", "f", "(", ")", "{", "}">> }

\* a function that is not extern and ends with `;`
NoBodyTexts ==
    { <<"fn", "f", "(", ")", ";">>,
      <<"export", "fn", "f", "(", ")", "->", "u8", ";">> }

\* a body with a statement of the form IDENT = expr ;
ReassignTexts ==
    { <<"fn", "f", "(", ")", "{", "a", "=", "1", ";", "}">>,
      <<"fn", "main", "(", ")", "->", "u32", "{", "var", "i", ":", "u32", "=", "0", ";",
        "while", "(", "i", "<", "5", ")", "{", "i", "=", "i", "+", "1", ";", "}",
        "return", "i", ";", "}">> }

\* a parameter name twice
DupParamTexts ==
    { <<"fn", "f", "(", "a", ":", "u8", ",", "a", ":", "u8", ")", "{", "}">>,
      <<"extern", "fn", "f", "(", "a", ":", "u8", ",", "b", ":", "u8", ",", "a", ":", "u32",
        ")", ";">> }

Texts ==
    WellFormedTexts \cup BothKeywordTexts \cup ExternBodyTexts \cup NoBodyTexts
        \cup ReassignTexts \cup DupParamTexts

RECURSIVE Flatten(_)
Flatten(texts) == IF texts = <<>> THEN <<>> ELSE Head(texts) \o Flatten(Tail(texts))

\* Lexer::scanTokens of the program text: its words, then end-of-input
TokensOf(texts) == Append(Words(Flatten(texts)), Token("TOK_EOF", "", 1))

InitParser ==
    /\ program \in UNION { [1..n -> Texts] : n \in 0..MaxFns }
    /\ ptokens = TokensOf(program)
    /\ pcurrent = 0
    /\ pfunctions = <<>>
    /\ ppc = "parse"
    /\ perror = ""

\* ---- single functions: expressions in every statement position ----------
MaxOps == 3
MaxWords == 2

\* the operand at position k of an expression
Operand(k) == <<"a", "b", "c", "d">>[((k - 1) % 4) + 1]

BinaryOperators == {"+", "<"}
OperatorSeqs == UNION { [1..n -> BinaryOperators] : n \in 0..MaxOps }

\* the words of  operand ops[k] operand ops[k+1] ... operand  from position k
RECURSIVE ExprWords(_, _)
ExprWords(ops, k) ==
    <<Operand(k)>> \o (IF k > Len(ops) THEN <<>> ELSE <<ops[k]>> \o ExprWords(ops, k + 1))

\* the statement positions an expression E is put in
StatementContexts ==
    {"return", "var", "call", "paren", "bare", "bareSemi", "callNoSemi"}

StatementWords(ctx, ops) ==
    LET E == ExprWords(ops, 1)
    IN  CASE ctx = "return" -> <<"return">> \o E \o <<";">>
          [] ctx = "var" -> <<"var", "x", "=">> \o E \o <<";">>
          [] ctx = "call" -> <<"f", "(">> \o E \o <<")", ";">>
          [] ctx = "paren" -> <<"return", "(">> \o E \o <<")", ";">>
          [] ctx = "bare" -> E
          [] ctx = "bareSemi" -> E \o <<";">>
          [] ctx = "callNoSemi" -> <<"f", "(">> \o E \o <<")">>

FunctionOf(stmt) == <<"fn", "main", "(", ")", "{">> \o stmt \o <<"}">>

ExprTexts ==
    { FunctionOf(StatementWords(ctx, ops)) : ctx \in StatementContexts, ops \in OperatorSeqs }

\* the function fibonacci of the README's control-flow example
ReadmeTexts ==
    { <<"fn", "fibonacci", "(", "n", ":", "u32", ")", "->", "u32", "{",
        "if", "(", "n", "<=", "1", ")", "{", "return", "n", ";", "}",
        "else", "{", "return", "fibonacci", "(", "n", "-", "1", ")", "+",
                     "fibonacci", "(", "n", "-", "2", ")", ";", "}", "}">> }

\* any short sequence of words
AnyWords == {"fn", "f", "(", ")", "{", "}", "return", ";", "+", "extern"}
WordSeqs == UNION { [1..n -> AnyWords] : n \in 0..MaxWords }

InitParserExpr ==
    /\ program \in { <<t>> : t \in ReadmeTexts \cup ExprTexts \cup Texts \cup WordSeqs }
    /\ ptokens = TokensOf(program)
    /\ pcurrent = 0
    /\ pfunctions = <<>>
    /\ ppc = "parse"
    /\ perror = ""

\* functions.push_back(parseFunction())
PushBack_front(fs, f) == <<f>> \o fs

PushBack(fs, f) == Append(fs, f)

\* one iteration of `while (!isAtEnd())` in Parser::parse; an exception
\* leaves parse (and main) with the cursor where it was thrown
ParseFunctionStep ==
    /\ ppc = "parse"
    /\ ~Parser_isAtEnd(pcurrent)
    /\ LET r == parseFunction(pcurrent)
       IN  /\ pcurrent' = r.cur
           /\ perror' = r.err
           /\ IF r.err # ""
              THEN ppc' = "error" /\ UNCHANGED pfunctions
              ELSE pfunctions' = PushBack(pfunctions, r.ast) /\ UNCHANGED ppc
    /\ UNCHANGED <<program, ptokens, exceptParser>>

\* the loop has ended: `return functions`
ParseReturn ==
    /\ ppc = "parse"
    /\ Parser_isAtEnd(pcurrent)
    /\ ppc' = "done"
    /\ UNCHANGED <<program, ptokens, pcurrent, pfunctions, perror, exceptParser>>

-----------------------------------------------------------------------------
(***************************************************************************)
(* main.  The scanner, the parser and the code generator are the other     *)
(* specifications; here their run is one step that either throws or        *)
(* leaves a module, which has a main function or has none.                 *)
(***************************************************************************)
MaxArgs == 3
ArgWords == {"--run", "--target-info", "a.jam", ""}
ArgVectors == UNION { [1..n -> ArgWords] : n \in 0..MaxArgs }

\* the values main of the compiled program may return
ExitCodes == {0, 2, 5}
\* the main function of the module: none, one returning void, one returning
\* an integer
MainFns == {"none", "void", "int"}

Running == [how |-> "running", code |-> 0]
Returned(n) == [how |-> "return", code |-> n]
\* an exception nothing catches: std::terminate
Terminated == [how |-> "terminate", code |-> 0]

Out(text, n) == [text |-> text, n |-> n]

\* the loop over argv: flags up to the first other argument, the file name
RECURSIVE ParseFlags(_, _, _, _)
ParseFlags(args, i, run, show) ==
    IF i > Len(args) THEN [runFlag |-> run, showTarget |-> show, filename |-> ""]
    ELSE IF args[i] = "--run" THEN ParseFlags(args, i + 1, TRUE, show)
    ELSE IF args[i] = "--target-info" THEN ParseFlags(args, i + 1, run, TRUE)
    ELSE [runFlag |-> run, showTarget |-> show, filename |-> args[i]]

InitDriver ==
    /\ argv \in ArgVectors
    /\ runFlag = FALSE /\ showTarget = FALSE /\ filename = ""
    /\ MainFn = "none" /\ Result = 0 /\ cout = <<>>
    /\ drvpc = "arguments" /\ exitStatus = Running

Exit(status) == drvpc' = "exited" /\ exitStatus' = status

\* main up to the check of the file name
DriverArguments ==
    /\ drvpc = "arguments"
    /\ LET flags == ParseFlags(argv, 1, FALSE, FALSE)
       IN  IF Len(argv) + 1 < 2
           THEN Exit(Returned(1)) /\ UNCHANGED <<runFlag, showTarget, filename>>
           ELSE /\ runFlag' = flags.runFlag
                /\ showTarget' = flags.showTarget
                /\ filename' = flags.filename
                /\ IF flags.filename = ""
                   THEN Exit(Returned(1))
                   ELSE drvpc' = "open" /\ UNCHANGED exitStatus
    /\ UNCHANGED <<argv, MainFn, Result, cout, exceptDriver>>

\* the target information and the opening of the file
DriverOpenFile ==
    /\ drvpc = "open"
    /\ cout' = IF showTarget THEN Append(cout, Out("Target Information:", 0)) ELSE cout
    /\ \E is_open \in BOOLEAN :
        IF ~is_open THEN Exit(Returned(1))
        ELSE drvpc' = "compile" /\ UNCHANGED exitStatus
    /\ UNCHANGED <<argv, runFlag, showTarget, filename, MainFn, Result, exceptDriver>>

\* scanTokens, parse and the loop over the functions: an exception of any of
\* them leaves main; otherwise the module is ready
DriverCompile ==
    /\ drvpc = "compile"
    /\ \E throws \in BOOLEAN, fn \in MainFns :
        IF throws
        THEN Exit(Terminated) /\ UNCHANGED MainFn
        ELSE /\ MainFn' = fn
             /\ drvpc' = IF runFlag THEN "run" ELSE "emit"
             /\ UNCHANGED exitStatus
    /\ UNCHANGED <<argv, runFlag, showTarget, filename, Result, cout, exceptDriver>>

\* run mode
DriverRun ==
    /\ drvpc = "run"
    /\ \E EE \in BOOLEAN, returned \in ExitCodes :
        LET running == Append(cout, Out("Running Jam program...", 0))
        IN  IF ~EE \/ MainFn = "none"
            THEN /\ Exit(Returned(1))
                 /\ cout' = running
                 /\ UNCHANGED Result
            ELSE /\ Result' = IF MainFn = "int" THEN returned ELSE 0
                 /\ cout' = Append(running,
                                   IF MainFn # "void"
                                   THEN Out("Program exited with code: ", returned)
                                   ELSE Out("Program completed successfully.", 0))
                 /\ Exit(Returned(0))
    /\ UNCHANGED <<argv, runFlag, showTarget, filename, MainFn, exceptDriver>>

\* emit mode: the IR on std::cout, output.o, the system compiler
DriverEmit ==
    /\ drvpc = "emit"
    /\ \E failure \in {"none", "lookupTarget", "raw_fd_ostream", "addPassesToEmitFile"} :
        IF failure # "none"
        THEN /\ Exit(Returned(1))
             /\ cout' = Append(cout, Out("IR", 0))
        ELSE /\ Exit(Returned(0))
             /\ cout' = Append(Append(cout, Out("IR", 0)),
                               Out("Compilation completed successfully.", 0))
    /\ UNCHANGED <<argv, runFlag, showTarget, filename, MainFn, Result, exceptDriver>>

-----------------------------------------------------------------------------
(***************************************************************************)
(* Target (target.h, target.cpp): a Target is built by its constructor or  *)
(* by fromLLVMTriple, then toLLVMTriple writes its triple.                 *)
(***************************************************************************)
Arch == {"X86_64", "AArch64", "ARM", "RISCV64", "Unknown"}
OS == {"Linux", "MacOS", "Windows", "FreeBSD", "Unknown"}
ABI == {"None", "GNU", "MSVC", "MinGW", "Musl", "Unknown"}

\* the values of llvm::Triple::getArch, getOS and getEnvironment the
\* switches of fromLLVMTriple name, and one they do not name for each
TripleArchs ==
    {"x86_64", "aarch64", "aarch64_be", "arm", "armeb", "thumb", "thumbeb", "riscv64",
     "UnknownArch"}
TripleOSs == {"Linux", "Darwin", "MacOSX", "Win32", "FreeBSD", "UnknownOS"}
TripleEnvironments ==
    {"GNU", "GNUEABI", "GNUEABIHF", "GNUX32", "MSVC", "Musl", "MuslEABI", "MuslEABIHF",
     "UnknownEnvironment", "Android"}

NoTriple == [Arch |-> "UnknownArch", OS |-> "UnknownOS", Environment |-> "UnknownEnvironment"]

\* a sample of the triples: every architecture, every OS and every
\* environment occurs, the environments with every OS
LLVMTriples ==
    [Arch : {"x86_64", "aarch64_be"}, OS : TripleOSs, Environment : TripleEnvironments]
        \cup [Arch : TripleArchs, OS : {"Linux"}, Environment : {"GNU"}]

\* the three switches of fromLLVMTriple
ParsedArch(triple) ==
    CASE triple.Arch = "x86_64" -> "X86_64"
      [] triple.Arch \in {"aarch64", "aarch64_be"} -> "AArch64"
      [] triple.Arch \in {"arm", "armeb", "thumb", "thumbeb"} -> "ARM"
      [] triple.Arch = "riscv64" -> "RISCV64"
      [] OTHER -> "Unknown"

ParsedOS(triple) ==
    CASE triple.OS = "Linux" -> "Linux"
      [] triple.OS \in {"Darwin", "MacOSX"} -> "MacOS"
      [] triple.OS = "Win32" -> "Windows"
      [] triple.OS = "FreeBSD" -> "FreeBSD"
      [] OTHER -> "Unknown"

ParsedABI(triple) ==
    CASE triple.Environment \in {"GNU", "GNUEABI", "GNUEABIHF", "GNUX32"} -> "GNU"
      [] triple.Environment = "MSVC" -> "MSVC"
      [] triple.Environment \in {"Musl", "MuslEABI", "MuslEABIHF"} -> "Musl"
      [] OTHER ->
            IF ParsedOS(triple) = "Windows" /\ triple.Environment = "UnknownEnvironment"
            THEN "MinGW"
            ELSE IF ParsedOS(triple) = "MacOS" THEN "None" ELSE "Unknown"

\* the three switches of toLLVMTriple
ArchText(a) ==
    CASE a = "X86_64" -> "x86_64"
      [] a = "AArch64" -> "aarch64"
      [] a = "ARM" -> "arm"
      [] a = "RISCV64" -> "riscv64"
      [] OTHER -> "unknown"

OSText(o) ==
    CASE o = "Linux" -> "linux"
      [] o = "MacOS" -> "darwin"
      [] o = "Windows" -> "windows"
      [] o = "FreeBSD" -> "freebsd"
      [] OTHER -> "unknown"

ABIText(ab) ==
    CASE ab = "GNU" -> <<"-gnu">>
      [] ab = "MSVC" -> <<"-msvc">>
      [] ab = "MinGW" -> <<"-gnu">>
      [] ab = "Musl" -> <<"-musl">>
      [] OTHER -> <<>>

InitTarget ==
    /\ llvmTriple \in LLVMTriples \cup {NoTriple}
    /\ arch = "Unknown" /\ os = "Unknown" /\ abi = "Unknown"
    /\ tripleString = <<>>
    /\ tgtpc = "construct"

\* Target(Arch a, OS o, ABI ab)
TargetConstruct(a, o, ab) ==
    /\ tgtpc = "construct"
    /\ llvmTriple = NoTriple
    /\ arch' = a /\ os' = o /\ abi' = ab
    /\ tgtpc' = "built"
    /\ UNCHANGED <<llvmTriple, tripleString, exceptTarget>>

\* Target::fromLLVMTriple
TargetFromLLVMTriple ==
    /\ tgtpc = "construct"
    /\ llvmTriple # NoTriple
    /\ arch' = ParsedArch(llvmTriple)
    /\ os' = ParsedOS(llvmTriple)
    /\ abi' = ParsedABI(llvmTriple)
    /\ tgtpc' = "built"
    /\ UNCHANGED <<llvmTriple, tripleString, exceptTarget>>

\* Target::toLLVMTriple
TargetToLLVMTriple ==
    /\ tgtpc = "built"
    /\ tripleString' = <<ArchText(arch), "-", "unknown-", OSText(os)>> \o ABIText(abi)
    /\ tgtpc' = "done"
    /\ UNCHANGED <<llvmTriple, arch, os, abi, exceptTarget>>

-----------------------------------------------------------------------------
IdleNumber == Val = Zero64 /\ numResult = NoValue
IdleFor ==
    /\ forStart = 0 /\ forEnd = 0 /\ forpc = "idle"
    /\ forSlot = NoValue /\ forEndVal = NoValue /\ forIters = 0

IdleLexer ==
    /\ source = <<>> /\ current = 0 /\ line = 1
    /\ tokens = <<>> /\ tokStart = <<>> /\ lexpc = "idle"

IdleCodegen ==
    /\ cgpc = "idle" /\ cgError = "" /\ functions = <<>> /\ nextFn = 1
    /\ TheModule = <<>> /\ TheFunction = 0
    /\ InsertBlock = 0 /\ NamedValues = [n \in VarNames |-> NoSlot]
    /\ CurrentLoopContinue = NullBB /\ CurrentLoopBreak = NullBB
    /\ stack = <<>> /\ nstmts = 0 /\ lastStmt = [kind |-> "none", emitted |-> 0]

IdleParser ==
    /\ program = <<>> /\ ptokens = <<>> /\ pcurrent = 0
    /\ pfunctions = <<>> /\ ppc = "idle" /\ perror = ""

IdleDriver ==
    /\ argv = <<>> /\ runFlag = FALSE /\ showTarget = FALSE /\ filename = ""
    /\ MainFn = "none" /\ Result = 0 /\ cout = <<>>
    /\ drvpc = "idle" /\ exitStatus = Running

IdleTarget ==
    /\ llvmTriple = NoTriple /\ arch = "Unknown" /\ os = "Unknown" /\ abi = "Unknown"
    /\ tripleString = <<>> /\ tgtpc = "idle"

NextNumber == NumberCodegen
InitSpecNumber == InitNumber /\ IdleFor /\ IdleLexer /\ IdleCodegen /\ IdleParser /\ IdleDriver /\ IdleTarget
SpecNumber == InitSpecNumber /\ [][NextNumber]_vars

NextFor == ForEntryBlock \/ ForCondBlock \/ ForLoopBlock \/ ForIncrBlock
InitSpecFor == InitFor /\ IdleNumber /\ IdleLexer /\ IdleCodegen /\ IdleParser /\ IdleDriver /\ IdleTarget
SpecFor == InitSpecFor /\ [][NextFor]_vars

\* the run of a for loop whose body may also end an iteration with continue
\* or break; the processor keeps executing the blocks
NextForLive ==
    \/ NextFor
    \/ ForLoopBlockJump("continue")
    \/ ForLoopBlockJump("break")
InitSpecForLive == InitSpecFor
SpecForLive == InitSpecForLive /\ [][NextForLive]_vars /\ WF_vars(NextForLive)

\* scanTokens runs to its end: no step of its loop waits on anything
NextLexer == LexScanStep \/ LexFinish
InitSpecLexer == InitLexer(MaxLen) /\ IdleNumber /\ IdleFor /\ IdleCodegen /\ IdleParser /\ IdleDriver /\ IdleTarget
SpecLexer == InitSpecLexer /\ [][NextLexer]_vars

\* the same with weak fairness: the loop of scanTokens keeps running
InitSpecLexerLive == InitLexer(MaxLiveLen) /\ IdleNumber /\ IdleFor /\ IdleCodegen /\ IdleParser /\ IdleDriver /\ IdleTarget
SpecLexerLive == InitSpecLexerLive /\ [][NextLexer]_vars /\ WF_vars(NextLexer)

\* main's loop over the functions, each lowered by FunctionAST::codegen
NextCodegen ==
    \/ FunctionBegin
    \/ \E e \in ReturnOperands : ReturnStmt(e)
    \/ \E e \in CallStatements : CallStmt(e)
    \/ \E d \in VarDecls : VarDeclStmt(d)
    \/ BreakStmt
    \/ ContinueStmt
    \/ IfBegin \/ IfElse \/ IfEnd
    \/ WhileBegin \/ WhileEnd
    \/ ForBegin("i", 0, 3) \/ ForEnd
    \/ FunctionEnd
InitSpec == InitCodegen /\ IdleNumber /\ IdleFor /\ IdleLexer /\ IdleParser /\ IdleDriver /\ IdleTarget
Spec == InitSpec /\ [][NextCodegen]_vars

\* functions whose bodies are call statements
NextCalls ==
    \/ FunctionBegin
    \/ \E e \in Calls : CallStatement(e)
    \/ FunctionEnd
InitSpecCalls ==
    InitCalls /\ IdleNumber /\ IdleFor /\ IdleLexer /\ IdleParser /\ IdleDriver /\ IdleTarget
SpecCalls == InitSpecCalls /\ [][NextCalls]_vars

\* Parser::parse
NextParser == ParseFunctionStep \/ ParseReturn
InitSpecParser == InitParser /\ IdleNumber /\ IdleFor /\ IdleLexer /\ IdleCodegen /\ IdleDriver /\ IdleTarget
SpecParser == InitSpecParser /\ [][NextParser]_vars

\* Parser::parse on one function, running to its end
InitSpecParserExpr ==
    InitParserExpr /\ IdleNumber /\ IdleFor /\ IdleLexer /\ IdleCodegen /\ IdleDriver
        /\ IdleTarget
SpecParserExpr == InitSpecParserExpr /\ [][NextParser]_vars /\ WF_vars(NextParser)

\* main
NextDriver ==
    DriverArguments \/ DriverOpenFile \/ DriverCompile \/ DriverRun \/ DriverEmit
InitSpecDriver ==
    InitDriver /\ IdleNumber /\ IdleFor /\ IdleLexer /\ IdleCodegen /\ IdleParser /\ IdleTarget
SpecDriver == InitSpecDriver /\ [][NextDriver]_vars

\* a Target is built and asked for its triple
NextTarget ==
    \/ \E a \in Arch, o \in OS, ab \in ABI : TargetConstruct(a, o, ab)
    \/ TargetFromLLVMTriple
    \/ TargetToLLVMTriple
InitSpecTarget ==
    InitTarget /\ IdleNumber /\ IdleFor /\ IdleLexer /\ IdleCodegen /\ IdleParser /\ IdleDriver
SpecTarget == InitSpecTarget /\ [][NextTarget]_vars

-----------------------------------------------------------------------------
(***************************************************************************)
(* Claims about the code generator                                         *)
(***************************************************************************)
\* every function of the program was lowered and no exception left main
Accepted == cgpc = "main" /\ nextFn > Len(functions)

\* the blocks of the functions that have a body
Blocks ==
    UNION { { <<f, b>> : b \in DOMAIN TheModule[f].blocks } : f \in DOMAIN TheModule }

instrsOf(r) == TheModule[r[1]].blocks[r[2]].instrs

Terminators(r) == { k \in DOMAIN instrsOf(r) : isTerminator(instrsOf(r)[k]) }

\* C1: in every function emitted for an accepted program, every basic block
\* ends in exactly one terminator, which is its last instruction
C1_SingleTerminator ==
    Accepted => \A r \in Blocks : Terminators(r) = {Len(instrsOf(r))} /\ instrsOf(r) # <<>>

\* C2: no block of an accepted program receives a second terminator or any
\* instruction after its terminator
C2_NoEmitAfterTerminator ==
    Accepted => \A r \in Blocks : \A k \in Terminators(r) : k = Len(instrsOf(r))

\* C3: in an accepted program the operand of every return has the declared
\* return type of its function, and every argument of a user call has the
\* type of the corresponding parameter of the callee
C3_TypedReturnAndCalls ==
    Accepted =>
        \A r \in Blocks : \A k \in DOMAIN instrsOf(r) :
            LET i == instrsOf(r)[k]
            IN  /\ i.op = "ret" => i.ty = TheModule[r[1]].RetType
                /\ i.op = "call" => i.tys = TheModule[getFunction(TheModule, i.name)].ArgTypes

\* the frames of the loops around the statement being lowered
LoopFrames == { k \in DOMAIN stack : stack[k].kind \in {"while", "for"} }

Innermost == stack[CHOOSE k \in LoopFrames : \A j \in LoopFrames : j <= k]

LastJump == lastStmt.kind \in {"break", "continue"}

LastInstr == instrsOf(<<TheFunction, InsertBlock>>)[Len(instrsOf(<<TheFunction, InsertBlock>>))]

AfterLoops(f) ==
    { b \in DOMAIN TheModule[f].blocks : TheModule[f].blocks[b].label = "afterloop" }

\* C4: a break is lowered to an unconditional branch to the after block of
\* the innermost enclosing loop, a continue to that loop's cond block (while)
\* or incr block (for), whatever the nesting and also after an inner loop of
\* the enclosing loop has ended
C4_LoopTargets ==
    (LastJump /\ LoopFrames # {}) =>
        /\ cgpc = "body"
        /\ lastStmt.emitted = 1
        /\ LastInstr.op = "br"
        /\ LastInstr.tgt =
              << <<TheFunction,
                   IF lastStmt.kind = "break" THEN Innermost.AfterBB
                   ELSE IF Innermost.kind = "while" THEN Innermost.CondBB
                   ELSE Innermost.IncrBB>> >>

\* a continue in the body of a for loop, after a loop nested in it has ended
C4_Witness ==
    /\ lastStmt.kind = "continue" /\ cgpc = "body"
    /\ Cardinality(LoopFrames) = 1 /\ Innermost.kind = "for"
    /\ Cardinality(AfterLoops(TheFunction)) = 2
    /\ LastInstr.tgt = << <<TheFunction, Innermost.IncrBB>> >>

\* C5: lowering break or continue while no loop is active raises the error
\* and emits no branch: at function top level, after a loop that has ended,
\* and in a function lowered after a function that contained loops
C5_JumpOutsideLoop ==
    (LastJump /\ LoopFrames = {}) =>
        /\ cgpc = "aborted"
        /\ cgError = (IF lastStmt.kind = "break"
                      THEN "break statement not inside a loop"
                      ELSE "continue statement not inside a loop")
        /\ lastStmt.emitted = 0

\* a break rejected after a loop of the same function has ended, in the
\* second function of a program whose first function contained a loop
C5_Witness ==
    /\ lastStmt.kind = "break" /\ cgpc = "aborted" /\ stack = <<>>
    /\ TheFunction = 2
    /\ AfterLoops(1) # {} /\ AfterLoops(2) # {}

\* C6: a function has external linkage exactly if it is named main or is
\* marked extern or export; every other function has internal linkage
C6_LinkageRule ==
    \A f \in DOMAIN TheModule :
        /\ TheModule[f].linkage \in {"external", "internal"}
        /\ TheModule[f].linkage = "external" <=>
              (TheModule[f].Name = "main" \/ TheModule[f].isExtern \/ TheModule[f].isExport)

\* a module holding an internal function and main
C6_Witness ==
    /\ \E f \in DOMAIN TheModule :
          TheModule[f].Name = "add" /\ TheModule[f].linkage = "internal"
    /\ \E f \in DOMAIN TheModule :
          TheModule[f].Name = "main" /\ TheModule[f].linkage = "external"
          /\ ~TheModule[f].isExtern /\ ~TheModule[f].isExport

\* the names of the slots allocated in function f
Allocated(f) ==
    UNION { { instrsOf(r)[k].name :
                k \in { j \in DOMAIN instrsOf(r) : instrsOf(r)[j].op = "alloca" } } :
            r \in { b \in Blocks : b[1] = f } }

ParamNames(ast) == { ast.Args[k][1] : k \in DOMAIN ast.Args }

\* C14: when the lowering of a function body starts, the symbol environment
\* holds exactly the parameters of that function; every variable loaded in a
\* function has its slot in that function, and a reference that raised the
\* unknown-variable error emitted nothing
C14_EnvironmentCleared ==
    /\ (lastStmt.kind = "fn" /\ cgpc = "body") =>
          \A n \in VarNames :
              NamedValues[n] # NoSlot <=> n \in ParamNames(functions[nextFn - 1])
    /\ \A r \in Blocks : \A k \in DOMAIN instrsOf(r) :
          instrsOf(r)[k].op = "load" => instrsOf(r)[k].name \in Allocated(r[1])
    /\ cgError = "Unknown variable name" => (cgpc = "aborted" /\ lastStmt.emitted = 0)

\* `a`, a slot of the first function, is unknown in the second function
C14_Witness ==
    /\ cgpc = "aborted" /\ cgError = "Unknown variable name"
    /\ TheFunction = 2
    /\ "a" \in Allocated(1) /\ "a" \notin Allocated(2)
    /\ \E r \in Blocks : \E k \in DOMAIN instrsOf(r) :
          r[1] = 1 /\ instrsOf(r)[k].op = "load" /\ instrsOf(r)[k].name = "a"

\* the for loops whose lowering is in progress
ForFrames == { k \in DOMAIN stack : stack[k].kind = "for" }

Lowered_functions ==
    { f \in DOMAIN TheModule : f # TheFunction /\ ~TheModule[f].isExtern }

\* C16: a function that fails verification ends the compilation: no further
\* function is lowered and main does not go on to its output stage
C16_VerificationFatal ==
    \A f \in Lowered_functions :
        verifyFunction(TheModule[f]) => (Len(TheModule) = f /\ cgpc # "main")

-----------------------------------------------------------------------------
\* the type of the slot named n in function f: the type of its alloca
SlotTypes(f, n) ==
    UNION { { instrsOf(r)[k].ty :
                k \in { j \in DOMAIN instrsOf(r) :
                          instrsOf(r)[j].op = "alloca" /\ instrsOf(r)[j].name = n } } :
            r \in { b \in Blocks : b[1] = f } }

\* the store a VarDecl just emitted: the last instruction of the current block
VarDeclDone == lastStmt.kind = "vardecl" /\ cgError = "" /\ LastInstr.op = "store"

\* C27: the value a VarDecl stores into the slot of its variable has the
\* allocated type of the slot, so that a load of the variable (which has the
\* allocated type) yields the initializer in all its bits
C27_StoredTypeIsSlotType ==
    VarDeclDone =>
        /\ NamedValues[LastInstr.name] \in SlotTypes(TheFunction, LastInstr.name)
        /\ LastInstr.ty = NamedValues[LastInstr.name]

\* the loop context: absent, or present with both targets set
ContextAbsent == CurrentLoopContinue = NullBB /\ CurrentLoopBreak = NullBB

ContextPresent == CurrentLoopContinue # NullBB /\ CurrentLoopBreak # NullBB

\* a while or for lowering returns: its frame is the top one and is popped
LoopReturns ==
    /\ stack # <<>>
    /\ Top.kind \in {"while", "for"}
    /\ stack' = Pop

\* C28: the loop context is at every point absent (both targets null) or
\* present (both set), and present exactly inside the lowering of a loop; a
\* while or for lowering that returns leaves the pair as it found it; so the
\* context is absent when the code generation of a function starts and ends
C28_LoopContextBalanced ==
    /\ [](/\ ContextAbsent \/ ContextPresent
          /\ ContextAbsent <=> LoopFrames = {}
          /\ (cgpc = "main" \/ lastStmt.kind \in {"fn", "end"}) => ContextAbsent)
    /\ [][LoopReturns =>
             /\ CurrentLoopContinue' = Top.PrevContinue
             /\ CurrentLoopBreak' = Top.PrevBreak]_vars

\* an inner loop has returned inside an outer one, whose context is back
C28_Witness ==
    /\ lastStmt.kind \in {"endwhile", "endfor"}
    /\ cgError = ""
    /\ LoopFrames # {}
    /\ CurrentLoopContinue =
          <<TheFunction, IF Innermost.kind = "while" THEN Innermost.CondBB
                         ELSE Innermost.IncrBB>>
    /\ CurrentLoopBreak = <<TheFunction, Innermost.AfterBB>>

(***************************************************************************)
(* Claims about calls                                                      *)
(***************************************************************************)
\* the last statement was a call of a user function / of a print function
UserCallDone == lastStmt.kind = "call" /\ lastStmt.call.name \notin PrintNames
PrintCallDone == lastStmt.kind = "call" /\ lastStmt.call.name \in PrintNames

\* the functions of the source whose lowering has begun: those before the
\* current one in declaration order, and the current one
BegunFunctions == { k \in DOMAIN functions : k < nextFn }

\* the callee of the last call is one of them and takes as many parameters
\* as the call has arguments
CalleeBegun ==
    \E k \in BegunFunctions :
        /\ functions[k].Name = lastStmt.call.name
        /\ \A j \in BegunFunctions : functions[j].Name = lastStmt.call.name => k <= j
        /\ Len(functions[k].Args) = Len(lastStmt.call.args)

\* the call instructions the last statement emitted
EmittedCalls == { k \in DOMAIN lastStmt.instrs : lastStmt.instrs[k].op = "call" }

\* a call instruction of printf or puts is in the module mod
PrintLowered(mod) ==
    \E f \in DOMAIN mod : \E b \in DOMAIN mod[f].blocks :
        \E k \in DOMAIN mod[f].blocks[b].instrs :
            /\ mod[f].blocks[b].instrs[k].op = "call"
            /\ mod[f].blocks[b].instrs[k].name \in {"printf", "puts"}

\* C24: a user call emits a call only if its callee was lowered earlier in
\* declaration order or is the function being lowered, with as many
\* parameters as arguments; any other user call throws before an argument
\* is lowered and emits nothing
C24_CalleeLoweredEarlier ==
    UserCallDone =>
        /\ EmittedCalls # {} => CalleeBegun
        /\ ~CalleeBegun => cgpc = "aborted" /\ cgError # "" /\ lastStmt.emitted = 0

\* the callee puts is in the module through an earlier print or println and
\* the call has the one argument of its declaration
CalleeDeclaredByPrint ==
    /\ lastStmt.call.name = "puts"
    /\ PrintLowered(lastStmt.before)
    /\ Len(lastStmt.call.args) = 1

\* C24, amended: a user call emits a call only if its callee is in the
\* module with as many parameters as arguments: lowered earlier, being
\* lowered, or puts after an earlier print or println declared it; any
\* other user call throws "Unknown function referenced" or "Incorrect number
\* of arguments passed" before an argument is lowered and emits nothing
C24_CalleeInModule ==
    UserCallDone =>
        /\ EmittedCalls # {} => (CalleeBegun \/ CalleeDeclaredByPrint)
        /\ ~(CalleeBegun \/ CalleeDeclaredByPrint) =>
              /\ cgpc = "aborted" /\ lastStmt.emitted = 0
              /\ cgError \in {"Unknown function referenced",
                              "Incorrect number of arguments passed"}
              /\ cgError = "Unknown function referenced" <=>
                    getFunction(lastStmt.before, lastStmt.call.name) = 0

\* puts, which no function of the source defines, was called after a println
C24_Witness ==
    /\ UserCallDone /\ cgpc = "body"
    /\ lastStmt.call.name = "puts"
    /\ \A k \in DOMAIN functions : functions[k].Name # "puts"
    /\ EmittedCalls # {}

-----------------------------------------------------------------------------
(***************************************************************************)
(* Claims about number literals and the for loop                           *)
(***************************************************************************)
InRange64(v, lo, hi) == Le64(lo, v) /\ Le64(v, hi)

\* w(v) as the specification states it
StatedWidth(v) ==
    IF InRange64(v, FromInt(-128), FromInt(255)) THEN 8
    ELSE IF InRange64(v, FromInt(-32768), FromInt(65535)) THEN 16
    ELSE IF InRange64(v, <<0, 32768, 65535, 65535>>, <<65535, 65535, 0, 0>>) THEN 32
    ELSE 64

\* C7: a number literal v lowers to an integer constant of width w(v):
\* 8 for v in [-128, 255], 16 for v in [-32768, 65535], 32 for v in
\* [-2^31, 2^32 - 1], 64 otherwise, the narrowest case applying first.
C7_NumberNarrowing ==
    numResult # NoValue => numResult.ty = StatedWidth(Val)

\* a literal just above 2^32 - 1 and a negative 16-bit literal were lowered
C7_Witness ==
    /\ numResult # NoValue
    /\ \/ Val = Add64(U32Max, FromInt(1)) /\ numResult.ty = 64
       \/ Val = FromInt(-129) /\ numResult.ty = 16

Max0(n) == IF n > 0 THEN n ELSE 0

\* C8: `for v in s:e` with a body free of break, continue and return runs
\* the body exactly max(0, e - s) times, v taking s, s+1, ..., e-1, for all
\* integer literal bounds.
C8_ForHalfOpenRange ==
    /\ forpc = "forloop" =>
          forSlot.bits = Trunc(FromInt(forStart + forIters), forSlot.ty)
    /\ forpc = "afterloop" => forIters = Max0(forEnd - forStart)

\* the loop variable as the signed integer icmp slt compares
ForSigned(v) == SExt(v.bits, v.ty)

\* C29: a for loop whose body terminates terminates.  The slot of the loop
\* variable is written only by the store before the loop and by forincr, the
\* end value only before the loop; forcond is entered only from the code
\* before the loop and from forincr (so also after a continue); forincr
\* makes the variable one larger as a signed number, without wrapping; and
\* the run reaches afterloop
C29_ForTerminates ==
    /\ [][/\ forSlot' # forSlot => forpc \in {"entry", "forincr"}
          /\ forEndVal' # forEndVal => forpc = "entry"
          /\ forpc' = "forcond" => forpc \in {"entry", "forincr"}
          /\ forpc = "forincr" =>
                /\ ForSigned(forSlot') = Add64(ForSigned(forSlot), FromInt(1))
                /\ Lt64(ForSigned(forSlot), ForSigned(forSlot'))]_vars
    /\ <>(forpc = "afterloop")

\* a loop has ended after iterations that ended with the body's end (or a
\* continue) and passed through forincr
C29_Witness ==
    /\ forpc = "afterloop"
    /\ forIters > 1
    /\ ~ForCondV(forSlot, forEndVal)
    /\ forSlot # NumberExprAST_codegen(FromInt(forStart))

-----------------------------------------------------------------------------
(***************************************************************************)
(* Claims about the scanner                                                *)
(***************************************************************************)
NonAscii == {"xC3"}

OnlyAscii == \A i \in DOMAIN source : source[i] \notin NonAscii

\* Whether the text from index i on, read in the given mode ("code", inside
\* a `//` comment, inside a string), ends inside a string literal.
RECURSIVE EndsInString(_, _)
EndsInString(i, mode) ==
    IF i > Len(source) THEN mode = "string"
    ELSE CASE mode = "comment" ->
                EndsInString(i + 1, IF source[i] = "\n" THEN "code" ELSE "comment")
           [] mode = "string" ->
                EndsInString(i + 1, IF source[i] = "\"" THEN "code" ELSE "string")
           [] OTHER ->
                IF source[i] = "\"" THEN EndsInString(i + 1, "string")
                ELSE IF source[i] = "/" /\ i < Len(source) /\ source[i + 1] = "/"
                     THEN EndsInString(i + 2, "comment")
                     ELSE EndsInString(i + 1, "code")

HasUnterminatedString == EndsInString(1, "code")

EofOnceLast ==
    /\ Len(tokens) >= 1
    /\ tokens[Len(tokens)].type = "TOK_EOF"
    /\ \A k \in 1..(Len(tokens) - 1) : tokens[k].type # "TOK_EOF"

\* C9: for any input of ASCII bytes with no unterminated string, scanTokens
\* terminates and returns a token sequence holding exactly one end-of-input
\* token, as its last element.
C9_ScannerTotality ==
    (OnlyAscii /\ ~HasUnterminatedString) => <>(lexpc = "done" /\ EofOnceLast)

\* an ASCII source with a closed string literal and another token was scanned
C9_Witness ==
    /\ lexpc = "done"
    /\ OnlyAscii /\ ~HasUnterminatedString
    /\ \E k \in DOMAIN tokens : tokens[k].type = "TOK_STRING_LITERAL"
    /\ \E k \in DOMAIN tokens : tokens[k].type = "TOK_IDENTIFIER"

NewlinesBefore(off) == Cardinality({i \in 1..off : source[i] = "\n"})

\* C10: the line recorded in each emitted token is one plus the number of
\* newline bytes before the token's first character, string literals that
\* span lines and tokens after comments included.
C10_LineTracking ==
    \A k \in DOMAIN tokens : tokens[k].line = 1 + NewlinesBefore(tokStart[k])

\* The 0-based offsets, from index i on read in the given mode, of the bytes
\* that start nothing in code: a `!` not followed by `=`, a `/` not followed
\* by `/`, a byte outside ASCII.
RECURSIVE UnexpectedFrom(_, _)
UnexpectedFrom(i, mode) ==
    IF i > Len(source) THEN {}
    ELSE CASE mode = "comment" ->
                UnexpectedFrom(i + 1, IF source[i] = "\n" THEN "code" ELSE "comment")
           [] mode = "string" ->
                UnexpectedFrom(i + 1, IF source[i] = "\"" THEN "code" ELSE "string")
           [] OTHER ->
                LET next == IF i < Len(source) THEN source[i + 1] ELSE NUL
                IN  CASE source[i] = "\"" -> UnexpectedFrom(i + 1, "string")
                      [] source[i] = "/" ->
                            IF next = "/" THEN UnexpectedFrom(i + 2, "comment")
                            ELSE {i - 1} \cup UnexpectedFrom(i + 1, "code")
                      [] source[i] = "!" ->
                            IF next = "=" THEN UnexpectedFrom(i + 2, "code")
                            ELSE {i - 1} \cup UnexpectedFrom(i + 1, "code")
                      [] source[i] = "=" ->
                            UnexpectedFrom(IF next = "=" THEN i + 2 ELSE i + 1, "code")
                      [] source[i] \in NonAscii -> {i - 1} \cup UnexpectedFrom(i + 1, "code")
                      [] OTHER -> UnexpectedFrom(i + 1, "code")

Unexpected == UnexpectedFrom(1, "code")

\* token k extends over the byte at offset off (a string literal with its quotes)
Covers(k, off) ==
    /\ tokStart[k] <= off
    /\ off < tokStart[k] + Len(tokens[k].lexeme)
                 + (IF tokens[k].type = "TOK_STRING_LITERAL" THEN 2 ELSE 0)

\* the bytes that start a token wherever they stand in code
TokenStarts == {"a", "1", "-", "="}

\* C18: scanTokens throws only for an unterminated string literal (then it
\* returns nothing, and the line of the error is the last line of the source);
\* for any other source it returns: no token covers an unexpected byte (a `!`
\* without `=`, a `/` without `/`, a byte outside ASCII), the byte after it
\* is scanned as usual, and the sequence ends with the end-of-input token.
C18_OnlyStringsAbort ==
    /\ [](/\ lexpc = "error" =>
                /\ HasUnterminatedString
                /\ line = 1 + NewlinesBefore(Len(source))
          /\ lexpc = "done" =>
                /\ ~HasUnterminatedString
                /\ EofOnceLast
                /\ \A off \in Unexpected :
                      /\ \A k \in DOMAIN tokens : ~Covers(k, off)
                      /\ (off + 1 < Len(source) /\ source[off + 2] \in TokenStarts) =>
                            \E k \in DOMAIN tokens : tokStart[k] = off + 1
          /\ \A off \in Unexpected : \A k \in DOMAIN tokens : ~Covers(k, off))
    /\ HasUnterminatedString => <>(lexpc = "error")
    /\ ~HasUnterminatedString => <>(lexpc = "done")

\* a `!` without `=` and a `/` without `/` were skipped and the identifier
\* after them was scanned
C18_Witness ==
    /\ lexpc = "done"
    /\ \E i, j \in Unexpected : source[i + 1] = "!" /\ source[j + 1] = "/"
    /\ Len(tokens) = 2
    /\ tokens[1].type = "TOK_IDENTIFIER" /\ tokStart[1] = 2

\* the 0-based offsets, from index i on read in the given mode, of the bytes
\* between the quotes of a string literal
RECURSIVE StringBytesFrom(_, _)
StringBytesFrom(i, mode) ==
    IF i > Len(source) THEN {}
    ELSE CASE mode = "comment" ->
                StringBytesFrom(i + 1, IF source[i] = "\n" THEN "code" ELSE "comment")
           [] mode = "string" ->
                IF source[i] = "\"" THEN StringBytesFrom(i + 1, "code")
                ELSE {i - 1} \cup StringBytesFrom(i + 1, "string")
           [] OTHER ->
                IF source[i] = "\"" THEN StringBytesFrom(i + 1, "string")
                ELSE IF source[i] = "/" /\ i < Len(source) /\ source[i + 1] = "/"
                     THEN StringBytesFrom(i + 2, "comment")
                     ELSE StringBytesFrom(i + 1, "code")

\* the bytes outside ASCII inside a string literal
NonAsciiInString ==
    { off \in StringBytesFrom(1, "code") : source[off + 1] \in NonAscii }

\* the bytes outside ASCII that continue an identifier: in code, directly
\* after a letter
NonAsciiInIdentifier ==
    { off \in Unexpected :
        source[off + 1] \in NonAscii /\ off >= 1 /\ isAlpha(source[off]) }

\* C19: in the returned token sequence a byte outside ASCII inside a string
\* literal is in the lexeme of the one STRING_LITERAL token around it, and a
\* byte outside ASCII inside an identifier is in the lexeme of the one
\* IDENTIFIER token that holds the letters before it, each at its position
C19_NonAsciiVerbatim ==
    lexpc = "done" =>
        /\ \A off \in NonAsciiInString :
              \E k \in DOMAIN tokens :
                  /\ tokens[k].type = "TOK_STRING_LITERAL"
                  /\ Covers(k, off)
                  /\ tokens[k].lexeme[off - tokStart[k]] = source[off + 1]
        /\ \A off \in NonAsciiInIdentifier :
              \E k \in DOMAIN tokens :
                  /\ tokens[k].type = "TOK_IDENTIFIER"
                  /\ Covers(k, off - 1) /\ Covers(k, off)
                  /\ tokens[k].lexeme[off - tokStart[k] + 1] = source[off + 1]

-----------------------------------------------------------------------------
(***************************************************************************)
(* Claims about the parser                                                 *)
(***************************************************************************)
\* the indices of the `fn` keywords of the token vector
FnTokens == { k \in DOMAIN ptokens : ptokens[k].type = "TOK_FN" }

\* the names that follow the `fn` keywords from index k on, in source order
RECURSIVE NamesFrom(_)
NamesFrom(k) ==
    IF k > Len(ptokens) THEN <<>>
    ELSE IF ptokens[k].type = "TOK_FN" THEN <<ptokens[k + 1].lexeme>> \o NamesFrom(k + 1)
    ELSE NamesFrom(k + 1)

OnlyWellFormed == \A i \in DOMAIN program : program[i] \in WellFormedTexts

ReassignAt ==
    { k \in 2..(Len(ptokens) - 1) :
        /\ ptokens[k].type = "TOK_IDENTIFIER"
        /\ ptokens[k + 1].type = "TOK_EQUAL"
        /\ ptokens[k - 1].type \in {"TOK_OPEN_BRACE", "TOK_CLOSE_BRACE", "TOK_SEMI"} }

FirstReassign == CHOOSE k \in ReassignAt : \A j \in ReassignAt : k <= j

\* C12: a program with a statement IDENT = expr ; in a function body is never
\* accepted: the parser does not get past the `=` of the first such
\* statement, and where nothing else is wrong with the program it throws
\* its missing-primary-expression error there
C12_ReassignmentRejected ==
    ReassignAt # {} =>
        /\ ppc # "done"
        /\ pcurrent <= FirstReassign
        /\ (ppc = "error" /\ \A i \in DOMAIN program :
                                program[i] \in WellFormedTexts \cup ReassignTexts) =>
              /\ pcurrent = FirstReassign
              /\ perror = "Expected primary expression"

\* the error raised at a reassignment nested in a while body, in the second
\* function of a program
C12_Witness ==
    /\ ppc = "error" /\ Len(pfunctions) = 1
    /\ ReassignAt # {} /\ pcurrent = FirstReassign
    /\ perror = "Expected primary expression"
    /\ \E k \in 1..FirstReassign : ptokens[k].type = "TOK_WHILE"

RejectedTexts == BothKeywordTexts \cup ExternBodyTexts \cup NoBodyTexts

\* C13: no FunctionAST the parser produces is both extern and export, and an
\* extern one has an empty body; a definition with both keywords before
\* `fn`, an extern function with a `{` body and a function that is not
\* extern and ends with `;` produce no FunctionAST and the program is not
\* accepted
C13_ExternExportExclusive ==
    /\ \A k \in DOMAIN pfunctions :
          /\ ~(pfunctions[k].isExtern /\ pfunctions[k].isExport)
          /\ pfunctions[k].isExtern => pfunctions[k].Body = <<>>
    /\ \A i \in DOMAIN program :
          program[i] \in RejectedTexts => (ppc # "done" /\ Len(pfunctions) < i)

\* `export extern fn` rejected after an export function with a body and an
\* extern declaration had been parsed
C13_Witness ==
    /\ ppc = "error" /\ perror = "Expected 'fn' keyword"
    /\ Len(program) = 2 /\ program[2] \in BothKeywordTexts
    /\ ptokens[pcurrent + 1].type = "TOK_EXTERN"
    /\ Len(pfunctions) = 1 /\ pfunctions[1].isExport /\ pfunctions[1].Body # <<>>

\* C20: the parameter names of every FunctionAST the parser produces are
\* pairwise distinct
C20_DistinctParameters ==
    \A f \in DOMAIN pfunctions :
        \A i, j \in DOMAIN pfunctions[f].Args :
            i # j => pfunctions[f].Args[i][1] # pfunctions[f].Args[j][1]

\* C22: the function fibonacci of the README, whose call arguments are
\* `n - 1` and `n - 2` with the minus between spaces (scanned as the minus
\* token), is parsed without an error
C22_ReadmeAccepted ==
    (program # <<>> /\ program[1] \in ReadmeTexts) =>
        /\ \E k \in DOMAIN ptokens : ptokens[k].type = "TOK_MINUS"
        /\ ppc # "error"

\* the operator sequences of  addition (cmp addition)?  with
\* addition = primary ('+' primary)?
OneOperatorPerLevel ==
    { <<>>, <<"+">>, <<"<">>, <<"+", "<">>, <<"<", "+">>, <<"+", "<", "+">> }

\* the first operator of ops that one comparison does not take
FirstSurplus(ops) ==
    CHOOSE j \in DOMAIN ops :
        /\ SubSeq(ops, 1, j) \notin OneOperatorPerLevel
        /\ \A i \in 1..(j - 1) : SubSeq(ops, 1, i) \in OneOperatorPerLevel

VariableAt(k) == <<"Variable", Operand(k)>>
BinaryOf(op, L, R) == <<"Binary", op, L, R>>

\* the tree of an expression with one operator per level
ExpectedExpr(ops) ==
    CASE ops = <<>> -> VariableAt(1)
      [] ops = <<"+">> -> BinaryOf("+", VariableAt(1), VariableAt(2))
      [] ops = <<"<">> -> BinaryOf("<", VariableAt(1), VariableAt(2))
      [] ops = <<"+", "<">> ->
            BinaryOf("<", BinaryOf("+", VariableAt(1), VariableAt(2)), VariableAt(3))
      [] ops = <<"<", "+">> ->
            BinaryOf("<", VariableAt(1), BinaryOf("+", VariableAt(2), VariableAt(3)))
      [] ops = <<"+", "<", "+">> ->
            BinaryOf("<", BinaryOf("+", VariableAt(1), VariableAt(2)),
                          BinaryOf("+", VariableAt(3), VariableAt(4)))

\* the positions where the expression must be followed by `;` or `)`
TerminatedContexts == {"return", "var", "call", "paren"}

ExpectedStatement(ctx, e) ==
    CASE ctx \in {"return", "paren"} -> <<"Return", e>>
      [] ctx = "var" -> <<"VarDecl", "x", "u8", FALSE, e>>
      [] ctx = "call" -> <<"Call", "f", <<e>>>>

\* the words before the expression: `fn main ( ) {` and those of the statement
WordsBefore(ctx) == 5 + (CASE ctx = "return" -> 1 [] ctx = "var" -> 3 [] OTHER -> 2)

MissingTerminator(ctx) ==
    CASE ctx = "return" -> "Expected ';' after return statement"
      [] ctx = "var" -> "Expected ';' after variable declaration"
      [] ctx = "call" -> "Expected ')' after function arguments"
      [] ctx = "paren" -> "Expected ')' after expression"

\* C23: an expression with at most one `+` on each side of at most one
\* comparison parses to the Binary tree of that shape (a + b < c + d to
\* Binary(<, Binary(+, a, b), Binary(+, c, d))); an expression with a second
\* operator of a level is never accepted, and where `;` or `)` must follow
\* (return, variable initializer, call argument, parenthesised expression)
\* the error is the missing `;` or `)`, raised at the surplus operator
C23_NoChaining ==
    \A ctx \in StatementContexts, ops \in OperatorSeqs :
        program = <<FunctionOf(StatementWords(ctx, ops))>> =>
            IF ops \in OneOperatorPerLevel
            THEN ctx \in TerminatedContexts =>
                    /\ ppc # "error"
                    /\ pfunctions # <<>> =>
                          pfunctions[1].Body = <<ExpectedStatement(ctx, ExpectedExpr(ops))>>
            ELSE /\ pfunctions = <<>> /\ ppc # "done"
                 /\ (ppc = "error" /\ ctx \in TerminatedContexts) =>
                       /\ perror = MissingTerminator(ctx)
                       /\ pcurrent = WordsBefore(ctx) + 2 * FirstSurplus(ops) - 1

\* `return (a + b + c);` was rejected at the second `+`
C23_Witness ==
    /\ ppc = "error"
    /\ program = <<FunctionOf(StatementWords("paren", <<"+", "+">>))>>
    /\ ptokens[pcurrent + 1].type = "TOK_PLUS"
    /\ perror = "Expected ')' after expression"

\* the words of the expression with the operators ops
ExprLength(ops) == 2 * Len(ops) + 1

\* C26: as a statement, IDENT ( ... ) is a call statement and needs its `;`
\* (without it the parser throws at the token after the `)`); any other bare
\* comparison is a whole statement, parsed from its first token and without
\* a `;`, so that a `;` after it (as in `x;`) is a missing-primary error
C26_CallStatementSemicolon ==
    \A ops \in OneOperatorPerLevel :
        /\ program = <<FunctionOf(StatementWords("call", ops))>> =>
              /\ ppc # "error"
              /\ pfunctions # <<>> =>
                    pfunctions[1].Body = <<<<"Call", "f", <<ExpectedExpr(ops)>>>>>>
        /\ program = <<FunctionOf(StatementWords("callNoSemi", ops))>> =>
              /\ pfunctions = <<>> /\ ppc # "done"
              /\ ppc = "error" =>
                    /\ perror = "Expected ';' after function call"
                    /\ pcurrent = 5 + 2 + ExprLength(ops) + 1
        /\ program = <<FunctionOf(StatementWords("bare", ops))>> =>
              /\ ppc # "error"
              /\ pfunctions # <<>> => pfunctions[1].Body = <<ExpectedExpr(ops)>>
        /\ program = <<FunctionOf(StatementWords("bareSemi", ops))>> =>
              /\ pfunctions = <<>> /\ ppc # "done"
              /\ ppc = "error" =>
                    /\ perror = "Expected primary expression"
                    /\ pcurrent = 5 + ExprLength(ops)

\* `a;` as a statement was rejected at the `;`
C26_Witness ==
    /\ ppc = "error"
    /\ program = <<FunctionOf(<<"a", ";">>)>>
    /\ ptokens[pcurrent + 1].type = "TOK_SEMI"
    /\ perror = "Expected primary expression"

\* the cursors that index a token
Cursors == 0..(Len(ptokens) - 1)

\* a parse function called at cur stays on a token, and moves on or throws
Progress(cur, r) == r.cur \in Cursors /\ (r.err = "" => r.cur > cur)

\* C30: on a token sequence that ends with end-of-input the cursor always
\* indexes a token; previous() is reached only through an advance after a
\* successful check, with the cursor at least 1, and is the token checked;
\* parseExpression and parseFunction, called at any cursor, move the cursor
\* on or throw; every iteration of parse moves on or ends it, and parse ends
C30_CursorInRange ==
    /\ [](ppc # "idle" =>
            /\ ptokens[Len(ptokens)].type = "TOK_EOF"
            /\ pcurrent \in Cursors
            /\ \A cur \in Cursors :
                  /\ Parser_check(cur, Parser_peek(cur).type) =>
                        /\ Parser_advance(cur) >= 1
                        /\ Parser_previous(Parser_advance(cur)) = Parser_peek(cur)
                  /\ Progress(cur, parseExpression(cur))
                  /\ Progress(cur, parseFunction(cur)))
    /\ [][pcurrent' > pcurrent \/ ppc' \in {"done", "error"}]_vars
    /\ <>(ppc \in {"done", "error"})

\* an exception thrown with the cursor on the end-of-input token
C30_Witness ==
    /\ ppc = "error"
    /\ pcurrent >= 1 /\ pcurrent = Len(ptokens) - 1
    /\ Parser_isAtEnd(pcurrent)

-----------------------------------------------------------------------------
(***************************************************************************)
(* Claims about main                                                       *)
(***************************************************************************)
\* the process ended by the return at the end of run mode
RanMain ==
    /\ drvpc = "exited"
    /\ \E k \in DOMAIN cout :
        cout[k].text \in {"Program exited with code: ", "Program completed successfully."}

\* C17: in run mode the exit status of the process is the integer main of
\* the program returned, and success when main is void
C17_RunExitStatus ==
    RanMain => exitStatus = Returned(IF MainFn = "int" THEN Result ELSE 0)

-----------------------------------------------------------------------------
(***************************************************************************)
(* Claims about Target                                                     *)
(***************************************************************************)
\* C21: for every arch, os and abi the triple is <arch>-unknown-<os> and then
\* -gnu for the abi gnu or mingw, -msvc for msvc, -musl for musl; nothing
\* follows the os when the os is macos
C21_TripleString ==
    tgtpc = "done" =>
        tripleString =
            <<ArchText(arch), "-", "unknown-", OSText(os)>>
                \o (CASE os = "MacOS" -> <<>>
                      [] abi \in {"GNU", "MinGW"} -> <<"-gnu">>
                      [] abi = "MSVC" -> <<"-msvc">>
                      [] abi = "Musl" -> <<"-musl">>
                      [] OTHER -> <<>>)

====
